---- MODULE Spec2Model ----
(***************************************************************************)
(* argcmdr: the command tree (Command.__getitem__, Command.args,          *)
(* Command.delegate) and the interpreter of process-invocation steps      *)
(* (Local.__call__), src/src/argcmdr.py.                                   *)
(*                                                                         *)
(* Python values are modelled as tuples of strings, so that any two of    *)
(* them can be compared: None is <<"None">>, the triple (c, o, e) is      *)
(* <<c, o, e>>, an exception instance is <<class name, identity>>.        *)
(***************************************************************************)
EXTENDS Integers, Sequences, FiniteSets, TLC

\* ------------------------------------------------------------------ bounds

\* The largest number of steps a routine produces in one run.
MaxSteps == 3

\* ------------------------------------------------------------- Python values

\* The object None, as a value held in a variable.
None == <<"None">>

\* empty_result = (None, None, None)
empty_result == <<"None", "None", "None">>

\* What plumbum's run()/TEE give for the k-th step: (code, stdout, stderr).
Triple(k, code) == <<ToString(code), "stdout" \o ToString(k), "stderr" \o ToString(k)>>

\* What plumbum's BG gives for the k-th step: a Future, not a triple.
Future(k) == <<"Future", ToString(k)>>

\* The exception instance a failed run of the k-th step raises.
ProcessExecutionError(k) == <<"ProcessExecutionError", ToString(k)>>

\* The interrupt raised while the k-th step runs (a BaseException, no Exception).
KeyboardInterrupt(k) == <<"KeyboardInterrupt", ToString(k)>>

\* An exception the routine raises of its own at its k-th resumption.
RoutineError(k) == <<"RoutineError", ToString(k)>>

\* The EnvironmentError of check_version.
EnvironmentError == <<"OSError", "requires Python version">>

\* An Exception of extend_parser, argcomplete or parse_args.
ParserError == <<"ParserError", "0">>

\* What argparse's add_parser raises, from Python 3.11, for a name it has.
ArgumentError == <<"ArgumentError", "conflicting subparser">>

\* The exit codes a process may end with.
ExitCodes == {0, 1}

\* The values of a flag that may be unset: None, True, False.
Tri == {"None", "True", "False"}

\* The execution modifiers a step may be paired with; "None" is a bare step.
Modifiers == {"None", "FG", "BG", "TEE", "SHH"}

\* Local._run_kws_
_run_kws_ == {"retcode", "timeout"}

\* The attributes a routine (prepare) may carry.
RoutineAttrs == {"retcode", "timeout", "help"}

\* ---------------------------------------------------------------- delegate

\* The largest number of parameters a routine declares (self not counted).
MaxParams == 4

\* A routine's declared parameters after self, in order: for each, whether it
\* has a default (param.default is not param.empty).
Signatures == UNION {[1..n -> BOOLEAN] : n \in 0..MaxParams}

\* The name of the i-th declared parameter.
ParamName(i) == "p" \o ToString(i)

\* The signature of Local.__call__(self, args).
LocalCallSignature == <<FALSE>>

\* The context items Command.delegate builds: (nspace, nspace._parser_) + additional.
CommandContext == <<"args", "parser">>

\* Local.delegate: super().delegate(method_name, self.local, *additional).
LocalContext == CommandContext \o <<"local">>

\* parameters = [name for (index, (name, param)) in enumerate(...)
\*               if index < call_arg_count or param.default is param.empty]
\* as the sequence of the positions kept (index = position - 1).
ParametersDroppingDefaults(sig, call_arg_count) ==
    LET F[i \in 0..Len(sig)] ==
            IF i = 0 THEN <<>>
            ELSE IF ~sig[i] THEN Append(F[i - 1], i) ELSE F[i - 1]
    IN  F[Len(sig)]

Parameters(sig, call_arg_count) ==
    LET F[i \in 0..Len(sig)] ==
            IF i = 0 THEN <<>>
            ELSE IF (i - 1 < call_arg_count) \/ ~sig[i]
                 THEN Append(F[i - 1], i)
                 ELSE F[i - 1]
    IN  F[Len(sig)]

\* ', '.join(repr(param) for param in names)
RECURSIVE JoinNames(_)
JoinNames(positions) ==
    IF positions = <<>> THEN ""
    ELSE IF Len(positions) = 1 THEN "'" \o ParamName(positions[1]) \o "'"
    ELSE "'" \o ParamName(positions[1]) \o "', " \o JoinNames(Tail(positions))

\* parameters[call_arg_count:]
ExcessFromOneEarlier(parameters, call_arg_count) ==
    SubSeq(parameters, call_arg_count, Len(parameters))

Excess(parameters, call_arg_count) ==
    SubSeq(parameters, call_arg_count + 1, Len(parameters))

\* The TypeError of lines 391-395 (the class name left out of its message).
TypeError(method_name, names) ==
    <<"TypeError",
      method_name \o "() requires too many positional arguments: " \o names>>

\* Command.delegate from the signature on: the TypeError it raises, or the
\* positional arguments it calls the routine with, call_args[:param_count].
Delegate(method_name, sig, call_args) ==
    LET call_arg_count == Len(call_args)
        parameters == Parameters(sig, call_arg_count)
        param_count == Len(parameters)
    IN  IF param_count > call_arg_count
        THEN [raised |-> TypeError(method_name,
                                   JoinNames(Excess(parameters, call_arg_count))),
              passed |-> <<>>]
        ELSE [raised |-> None,
              passed |-> SubSeq(call_args, 1, param_count)]

\* Python's binding of positional arguments to the declared parameters: the
\* i-th parameter takes the i-th argument, or its declared default.
Bind(sig, passed) ==
    [i \in 1..Len(sig) |-> IF i <= Len(passed) THEN passed[i] ELSE "default"]

\* ------------------------------------------------------------ command tree

\* The largest number of command classes in a definition tree.
MaxNodes == 4

\* The largest number of tokens in a lookup path.
MaxPath == 3

\* The lower-cased names the command classes derive (Command.name); the root
\* class is named "root".
Names == {"a", "b"}

\* The definition trees: class i is nested in class parent (0 for the root
\* class); classes are numbered in the order _build_interface_ visits them
\* (each class, then its _subcommands_ in declaration order).
RECURSIVE AncestorsOrSelf(_, _)
AncestorsOrSelf(d, i) == IF i = 0 THEN {} ELSE {i} \cup AncestorsOrSelf(d, d[i].parent)

DefSets ==
    UNION {
        {d \in [1..n -> [parent : 0..(n - 1), name : Names \cup {"root"}]] :
            /\ d[1] = [parent |-> 0, name |-> "root"]
            /\ \A i \in 2..n :
                /\ d[i].name \in Names
                /\ d[i].parent \in AncestorsOrSelf(d, i - 1)}
        : n \in 1..MaxNodes}

\* The names of the classes of d whose parent is p, in the order of d.
ChildNames(d, p) ==
    LET IsChild(c) == c.parent = p
        children == SelectSeq(d, IsChild)
    IN  [i \in 1..Len(children) |-> children[i].name]

\* The sequences of names of nested or registered classes.
NameSeqs == UNION {[1..n -> Names] : n \in 0..(MaxNodes - 1)}

\* RootCommand._subcommands_ (lines 524-529): the nested classes, and then
\* those of _registry_ unless it is None; Command._subcommands_ (lines
\* 405-408) for any other class, whose registry is None here.
SubcommandsRegisteredFirst(nest, reg) ==
    IF reg = None THEN nest ELSE reg \o nest

Subcommands(nest, reg) ==
    IF reg = None THEN nest ELSE nest \o reg

\* A dict as the sequence of its (key, value) items in insertion order.
\* dict.get(key): the value, or 0 for None.
RECURSIVE DictGet(_, _)
DictGet(dict, k) ==
    IF dict = <<>> THEN 0
    ELSE IF dict[Len(dict)][1] = k THEN dict[Len(dict)][2]
    ELSE DictGet(SubSeq(dict, 1, Len(dict) - 1), k)

\* dict[key] = value: replaces the value of a key already there.
DictSetAppending(dict, k, v) == Append(dict, <<k, v>>)

DictSet(dict, k, v) ==
    IF \E i \in 1..Len(dict) : dict[i][1] = k
    THEN [i \in 1..Len(dict) |-> IF dict[i][1] = k THEN <<k, v>> ELSE dict[i]]
    ELSE Append(dict, <<k, v>>)

\* The tokens of a lookup key: a str, an int, or an object of another type
\* (None, bytes).
StrToken(name) == [t |-> "str", s |-> name, n |-> 0]
IntToken(i) == [t |-> "int", s |-> "", n |-> i]
OtherToken(what) == [t |-> "other", s |-> what, n |-> 0]

Tokens ==
    {StrToken(nm) : nm \in Names} \cup {IntToken(i) : i \in -3..0}
        \cup {OtherToken("None")}

\* The keys of Command.__getitem__: a tuple or list of tokens (seq), or a
\* single object that is no sequence, or is a str or bytes.
Keys ==
    {[seq |-> TRUE, toks |-> toks] :
        toks \in UNION {[1..n -> Tokens] : n \in 0..MaxPath}}
    \cup {[seq |-> FALSE, toks |-> <<tok>>] : tok \in Tokens}

\* tuple[index] in Python: a negative index counts from the end; 0 stands
\* for IndexError (nodes are numbered from 1).
PyIndex(tuple, index) ==
    LET i == IF index < 0 THEN index + Len(tuple) ELSE index
    IN  IF i < 0 \/ i >= Len(tuple) THEN 0 ELSE tuple[i + 1]

\* The outcome of a lookup: the node returned, or the exception raised.
Returns(node) == [exc |-> "None", node |-> node]
Raises(exc) == [exc |-> exc, node |-> 0]

\* The __dict__ of an argparse.Namespace: a function from its keys to their
\* values. A new Namespace has no keys.
EmptyDict == [k \in {} |-> ""]

\* The destinations the options a command's __init__ declares may have.
OptionKeys == {"x", "y"}

\* The values of the namespace: a command, a parser, the default of an
\* option of the command n, a value given on the command line.
CommandValue(n) == "command" \o ToString(n)

ParserValue(n) == "parser" \o ToString(n)

OptionDefault(n) == "default" \o ToString(n)

GivenValue == "given"

\* dict[k] = v
SetItem(dict, k, v) == [j \in DOMAIN dict \cup {k} |-> IF j = k THEN v ELSE dict[j]]

\* dict.setdefault(k, v)
SetDefaultReplacing(dict, k, v) ==
    [j \in DOMAIN dict \cup {k} |-> IF j = k THEN v ELSE dict[j]]

SetDefault(dict, k, v) == IF k \in DOMAIN dict THEN dict ELSE SetItem(dict, k, v)

\* dict.setdefault(k, defaults[k]) for every k of defaults.
SetDefaults(dict, defaults) ==
    [k \in DOMAIN dict \cup DOMAIN defaults |->
        IF k \in DOMAIN defaults THEN SetDefault(dict, k, defaults[k])[k]
        ELSE dict[k]]

\* copy.copy(obj): the object that holds the copy, fresh being unused so far.
CopyAliasing(obj, fresh) == obj

Copy(obj, fresh) == fresh

\* The heap with the __dict__ of obj set.
Store(heap, obj, dict) ==
    IF obj = Len(heap) + 1 THEN Append(heap, dict)
    ELSE [heap EXCEPT ![obj] = dict]

\* ------------------------------------------------------------------- state

VARIABLES
    \* --- main, Command.call, Command.delegate ---
    klass,              \* the invoked command's class: "Command" or "Local"
    method_name,        \* the routine being delegated to
    call_args,          \* the context items of the delegation in progress
    signature,          \* the signature of the routine being delegated to
    passed,             \* the positional arguments of the call in progress
    entered,            \* the routines whose body has been entered
    attributes,         \* the names in prepare.__dict__
    args,               \* main's local variable args: None, or the namespace
    traceback,          \* args.traceback as main's handler found it
    printed,            \* what main's handler printed to outfile
    finish,             \* how main ended
    \* --- Local.__call__ ---
    pc,                 \* position in main / Local.__call__
    send,               \* hasattr(commands, 'send')
    pending,            \* the steps a static sequence still holds
    produced,           \* number of steps the iterator has produced
    step,               \* the step in hand: its modifier ("None" when bare)
    result,             \* local variable result
    thrown,             \* local variable thrown
    run_kwargs,         \* local variable run_kwargs (its keys)
    execute_commands,   \* args.execute_commands (False under --dry-run)
    foreground,         \* args.foreground (False under --quiet)
    show_commands,      \* args.show_commands (None, True, False)
    propagated,         \* the exception that left the call, or None
    \* --- observations of the interpreter's collaborators ---
    received,           \* how the iterator was last resumed, and with what
    outcome,            \* what became of the last step that reached execution
    runs,               \* number of run/spawn invocations on process descriptors
    lastRun,            \* the last such invocation
    running,            \* the steps whose process has been started and not exited
    shown,              \* number of descriptors printed
    shownStep,          \* the last step whose descriptor was printed
    \* --- the command tree ---
    defs,               \* the command class definitions, in the order of the build
    nested,             \* the names of the classes nested in the root class
    registry,           \* the root class's _registry_: None, or those registered
    built,              \* number of commands _build_interface_ has constructed
    _children_,         \* each command's _children_ dict
    _parents_,          \* each command's _parents_ tuple
    _args_,             \* each command's _args_: a Namespace object
    failed,             \* the exception that ended _build_interface_, or None
    constructing,       \* the command whose __init__ is running, if any
    lookup,             \* the last __getitem__ / root access and its outcome
    \* --- the namespace and its views ---
    _command_,          \* args._command_: the command parsing selected (0: unset)
    cache,              \* each command's cached delegate_args (0: not computed)
    heap,               \* number of Namespace copies made so far
    seen,               \* the object each command's args last gave
    access,             \* the last args access / delegation and its outcome
    schema,             \* the option destinations each class's __init__ declares
    ns,                 \* the __dict__ of each Namespace object
    \* --- a routine that delegates to its parent's ---
    routine,            \* the steps of the two routines, and how far they got
    owners,             \* whose step each step the iterator produced was
    commands,           \* what the routine returned, where that is observed
    handed,             \* the failures thrown into the generator so far
    own                 \* the options the modifier instances of the steps were made with

dvars == <<klass, method_name, call_args, signature, passed, entered, attributes>>

mvars == <<args, traceback, printed, finish>>

ivars == <<pc, send, pending, produced, step, result, thrown, run_kwargs,
           execute_commands, foreground, show_commands, propagated,
           received, outcome, runs, lastRun, running, shown, shownStep>>

tvars == <<defs, nested, registry, built, _children_, _parents_, _args_, failed,
          constructing>>

avars == <<_command_, cache, heap, seen, access>>

nvars == <<schema, ns>>

scenario == <<routine, owners, commands, handed, own>>

treeState == <<tvars, lookup, avars, nvars, scenario>>

runState == <<dvars, ivars, mvars>>

vars == <<runState, treeState>>

flags == <<execute_commands, foreground, show_commands>>

observed == <<received, outcome, runs, lastRun, running, shown, shownStep>>

\* ------------------------------------------------- main and the interpreter

NoRun == [step |-> 0, method |-> "none", kwargs |-> {},
          options |-> [retcode |-> "0", timeout |-> "None"]]

\* What became of a step that reached line 672: it was not run ("dry"), its
\* run returned value ("ok"), raised the Exception value ("fail"), or was
\* interrupted ("interrupt").
Outcome(kind, value, k) == [kind |-> kind, value |-> value, step |-> k]

NoOutcome == Outcome("none", None, 0)

\* No lookup made yet.
NoLookup == [what |-> "none", node |-> 0, key |-> [seq |-> TRUE, toks |-> <<>>],
             found |-> [exc |-> "None", node |-> 0]]

\* No command's __init__ is running.
NotConstructing == [node |-> 0, base |-> FALSE]

\* No args access made yet.
NoAccess == [what |-> "none", node |-> 0, obj |-> 0]

\* The routine's return value is not observed, or it has not returned.
NoReturn == [kind |-> "unobserved", items |-> <<>>]

\* No routine of the kind that delegates to its parent's.
NoRoutine == [phase |-> "none", build |-> <<>>, deploy |-> <<>>, i |-> 0, j |-> 0]

\* The tree before _build_interface_ has run.
InitTree ==
    /\ built = 0
    /\ _children_ = <<>>
    /\ _parents_ = <<>>
    /\ _args_ = <<>>
    /\ failed = None
    /\ constructing = NotConstructing
    /\ lookup = NoLookup
    /\ _command_ = 0
    /\ cache = <<>>
    /\ heap = 0
    /\ seen = <<>>
    /\ access = NoAccess
    /\ ns = <<>>
    /\ owners = <<>>
    /\ commands = NoReturn
    /\ handed = {}
    /\ own = {}

\* The root class is a plain Command: what it nests are its sub-commands.
Declared ==
    /\ registry = None
    /\ nested = ChildNames(defs, 1)

Init ==
    /\ defs = <<>>
    /\ Declared
    /\ schema = <<>>
    /\ routine = NoRoutine
    /\ InitTree
    /\ klass \in {"Command", "Local"}
    /\ method_name = ""
    /\ call_args = <<>>
    /\ signature = <<>>
    /\ passed = <<>>
    /\ entered = {}
    /\ attributes \in (IF klass = "Local" THEN SUBSET RoutineAttrs ELSE {{}})
    /\ args = "Namespace"
    /\ traceback = "unread"
    /\ printed = None
    /\ finish = "no"
    /\ pc = "main"
    /\ send = FALSE
    /\ pending = <<>>
    /\ produced = 0
    /\ step = "None"
    /\ result = None
    /\ thrown = None
    /\ run_kwargs = {}
    /\ execute_commands \in BOOLEAN
    /\ foreground \in BOOLEAN
    /\ show_commands \in Tri
    /\ propagated = None
    /\ received = <<"never", None>>
    /\ outcome = NoOutcome
    /\ runs = 0
    /\ lastRun = NoRun
    /\ running = {}
    /\ shown = 0
    /\ shownStep = 0


\* A Local command whose routine declares no override, and whose return
\* value is observed.
InitReturn ==
    /\ Init
    /\ klass = "Local"
    /\ attributes = {}

\* main, lines 68-75, up to command.call(). check_version or _get_parser_
\* may raise while args is None; once the namespace exists, extend_parser,
\* argcomplete or the parse may raise.
MainStart ==
    /\ pc = "start"
    /\ \/ /\ propagated' = EnvironmentError
          /\ pc' = "raised"
          /\ UNCHANGED args
       \/ /\ args' = "Namespace"
          /\ propagated' = ParserError
          /\ pc' = "raised"
       \/ /\ args' = "Namespace"
          /\ pc' = "main"
          /\ UNCHANGED propagated
    /\ UNCHANGED <<treeState, dvars, traceback, printed, finish, send, pending, produced,
                   step, result, thrown, run_kwargs, flags, observed>>

\* main: command.call(), that is Command.delegate('__call__') with the context
\* (args, parser). A Local's __call__ is Local.__call__(self, args); any
\* other command's __call__ is the routine its class declares.
CommandCall ==
    /\ pc = "main"
    /\ \E sig \in Signatures :
        /\ klass = "Local" => sig = LocalCallSignature
        /\ LET d == Delegate("__call__", sig, CommandContext)
           IN  /\ method_name' = "__call__"
               /\ call_args' = CommandContext
               /\ signature' = sig
               /\ passed' = d.passed
               /\ propagated' = d.raised
               /\ IF d.raised # None
                  THEN /\ pc' = "raised"
                       /\ entered' = entered
                  ELSE /\ pc' = IF klass = "Local" THEN "call" ELSE "done"
                       /\ entered' = entered \cup {"__call__"}
    /\ UNCHANGED <<treeState, mvars, klass, attributes, send, pending, produced, step, result, thrown,
                   run_kwargs, flags, observed>>

\* Local.__call__: commands = self.delegate(), that is
\* Command.delegate('prepare', self.local) with the context (args, parser, local).
LocalDelegate ==
    /\ pc = "call"
    /\ \E sig \in Signatures :
        LET d == Delegate("prepare", sig, LocalContext)
        IN  /\ method_name' = "prepare"
            /\ call_args' = LocalContext
            /\ signature' = sig
            /\ passed' = d.passed
            /\ propagated' = d.raised
            /\ IF d.raised # None
               THEN /\ pc' = "raised"
                    /\ entered' = entered
               ELSE /\ pc' = "prepare"
                    /\ entered' = entered \cup {"prepare"}
    /\ UNCHANGED <<treeState, mvars, klass, attributes, send, pending, produced, step, result, thrown,
                   run_kwargs, flags, observed>>

\* The sequences of steps a routine may return: each step is its modifier.
StepSeqs == UNION {[1..n -> Modifiers] : n \in 0..MaxSteps}

\* run_kwargs = {key: getattr(self.prepare, key)
\*               for key in self._run_kws_ & self.prepare.__dict__.keys()}
RunKwargsAll(attrs) == attrs

RunKwargs(attrs) == _run_kws_ \cap attrs

\* What sequences hold: a process descriptor, or a pair (modifier,
\* descriptor), which is a step with that modifier, or a modifier instance.
Element(m) ==
    IF m = "None" THEN [t |-> "BaseCommand", m |-> "None"] ELSE [t |-> "tuple", m |-> m]

ModifierInstance(m) == [t |-> "ExecutionModifier", m |-> m]

\* What a routine may return: None, a generator, a process descriptor, the
\* pair of a modifier and a descriptor, or a tuple or list of steps.
Returnable ==
    {[kind |-> k, items |-> <<>>] : k \in {"None", "generator", "BaseCommand"}}
    \cup {[kind |-> "tuple", items |-> <<ModifierInstance(m), Element("None")>>] :
            m \in Modifiers \ {"None"}}
    \cup {[kind |-> "tuple", items |-> [i \in 1..Len(seq) |-> Element(seq[i])]] :
            seq \in StepSeqs}

\* Lines 639-643: whether the value is one step, to be wrapped in a tuple.
IsStepByLength(value) ==
    \/ value.kind = "BaseCommand"
    \/ /\ value.kind = "tuple"
       /\ Len(value.items) = 2

IsStep(value) ==
    \/ value.kind = "BaseCommand"
    \/ /\ value.kind = "tuple"
       /\ Len(value.items) = 2
       /\ value.items[1].t = "ExecutionModifier"

\* Lines 644, 652, 665-668: the steps the iterator over the value gives, each
\* as its modifier ("None" for a bare descriptor).
Steps(value) ==
    IF IsStep(value)
    THEN <<IF value.kind = "BaseCommand" THEN "None" ELSE value.items[1].m>>
    ELSE [i \in 1..Len(value.items) |-> value.items[i].m]

\* The routine's body runs to its return; Local.__call__ up to the loop.
\* Nothing reads the flags of args before the loop, so a value the routine
\* sets before it returns is one of the values the flags start with. It
\* returns None, one step (bare or paired with a modifier), a sequence of
\* steps, or a generator (whose body has not started).
PrepareWith(value) ==
    /\ method_name' = ""
    /\ call_args' = <<>>
    /\ signature' = <<>>
    /\ passed' = <<>>
    /\ IF value.kind = "None"
       THEN /\ pc' = "done"                      \* commands is None: return
            /\ UNCHANGED <<send, pending, run_kwargs>>
       ELSE /\ send' = (value.kind = "generator")
            /\ pending' = IF value.kind = "generator" THEN <<>> ELSE Steps(value)
            /\ run_kwargs' = RunKwargs(attributes)
            /\ pc' = "fetch"
    /\ UNCHANGED <<tvars, lookup, avars, nvars, routine, owners, handed, mvars, klass,
                   attributes, entered, produced, step, result, thrown, propagated, flags,
                   observed>>

Prepare ==
    /\ pc = "prepare"
    /\ \E value \in Returnable : PrepareWith(value)
    /\ UNCHANGED <<commands, own>>

\* The same, where what the routine returned is kept for observation.
PrepareReturning ==
    /\ pc = "prepare"
    /\ \E value \in Returnable :
        /\ PrepareWith(value)
        /\ commands' = value
    /\ UNCHANGED own

\* The same for a routine that returns its steps, where the modifier
\* instances in what it returns were made with options of their own, as
\* FG(timeout=...) is: a bare descriptor has no modifier and none.
PrepareOwn ==
    /\ pc = "prepare"
    /\ \E value \in Returnable, opts \in SUBSET _run_kws_ :
        /\ value.kind # "generator"
        /\ PrepareWith(value)
        /\ commands' = value
        /\ own' = IF value.kind = "tuple" THEN opts ELSE {}

\* How the loop resumes the iterator (lines 656-661).
ResumeIgnoringResult(snd, res, thr) ==
    IF snd /\ thr # None THEN <<"throw", thr>>
    ELSE <<"next", None>>

ResumeThrowingFirst(snd, res, thr) ==
    IF snd /\ thr # None THEN <<"throw", thr>>
    ELSE IF snd /\ res # None THEN <<"send", res>>
    ELSE <<"next", None>>

ResumeNeverThrowing(snd, res, thr) ==
    IF snd /\ res # None THEN <<"send", res>>
    ELSE <<"next", None>>

Resume(snd, res, thr) ==
    IF snd /\ res # None THEN <<"send", res>>
    ELSE IF snd /\ thr # None THEN <<"throw", thr>>
    ELSE <<"next", None>>

\* Lines 662-663: except StopIteration: break, and Local.__call__ returns.
OnStopIterationContinue == "fetch"

OnStopIteration == "done"

\* next(iterator) on a tuple or list: its next element, or StopIteration.
FetchStatic ==
    /\ pc = "fetch"
    /\ ~send
    /\ received' = Resume(send, result, thrown)
    /\ IF pending = <<>>
       THEN /\ pc' = OnStopIteration
            /\ UNCHANGED <<pending, produced, step>>
       ELSE /\ pc' = "show"
            /\ step' = Head(pending)
            /\ pending' = Tail(pending)
            /\ produced' = produced + 1
    /\ UNCHANGED <<treeState, mvars, dvars, send, result, thrown, run_kwargs, flags, propagated,
                   outcome, runs, lastRun, running, shown, shownStep>>

\* What a generator resumed by iterator.throw(exc) holds: exc, which its
\* handler binds and which a finally block lets continue when it ends.
Handed(before, resumed) ==
    IF resumed[1] = "throw" THEN before \cup {resumed[2]} ELSE before

\* The generator is resumed, runs (it may set the flags of args) and yields
\* its next step: the next of its body, or, resumed by throw, one from a
\* handler or a finally block.
RoutineYield ==
    /\ pc = "fetch"
    /\ send
    /\ produced < MaxSteps
    /\ received' = Resume(send, result, thrown)
    /\ handed' = Handed(handed, received')
    /\ \E m \in Modifiers : step' = m
    /\ \E e \in BOOLEAN, f \in BOOLEAN, s \in Tri :
        /\ execute_commands' = e
        /\ foreground' = f
        /\ show_commands' = s
    /\ produced' = produced + 1
    /\ pc' = "show"
    /\ UNCHANGED <<tvars, lookup, avars, nvars, routine, owners, commands, own, mvars, dvars, send,
                   pending, result, thrown, run_kwargs, propagated, outcome, runs, lastRun,
                   running, shown, shownStep>>

\* The generator is resumed and returns: StopIteration, break. A generator
\* that has finished holds nothing.
RoutineReturn ==
    /\ pc = "fetch"
    /\ send
    /\ received' = Resume(send, result, thrown)
    /\ handed' = {}
    /\ pc' = OnStopIteration
    /\ UNCHANGED <<tvars, lookup, avars, nvars, routine, owners, commands, own, mvars, dvars, send,
                   pending, produced, step, result, thrown, run_kwargs, flags, propagated,
                   outcome, runs, lastRun, running, shown, shownStep>>

\* The generator is resumed and an exception leaves it: the one thrown into
\* it (not caught, or raised again), one thrown into it earlier (a finally
\* block that yielded has ended, or a handler raises what it caught), or one
\* of its own.
RoutineRaise ==
    /\ pc = "fetch"
    /\ send
    /\ received' = Resume(send, result, thrown)
    /\ \/ \E exc \in Handed(handed, received') : propagated' = exc
       \/ propagated' = RoutineError(produced)
    /\ handed' = {}
    /\ pc' = "raised"
    /\ UNCHANGED <<tvars, lookup, avars, nvars, routine, owners, commands, own, mvars, dvars, send,
                   pending, produced, step, result, thrown, run_kwargs, flags, outcome, runs,
                   lastRun, running, shown, shownStep>>

\* Local._show_command_(command): whether the descriptor is printed.
ShowCommandWheneverDry(force) ==
    \/ force
    \/ show_commands = "True"
    \/ ~execute_commands

ShowCommand(force) ==
    \/ force
    \/ show_commands = "True"
    \/ (show_commands = "None" /\ ~execute_commands)

\* Lines 665-670: the step is unpacked and self._show_command_(command).
Show ==
    /\ pc = "show"
    /\ IF ShowCommand(FALSE)
       THEN /\ shown' = shown + 1
            /\ shownStep' = produced
       ELSE UNCHANGED <<shown, shownStep>>
    /\ pc' = "exec"
    /\ UNCHANGED <<treeState, mvars, dvars, send, pending, produced, step, result, thrown,
                   run_kwargs, flags, propagated, received, outcome, runs,
                   lastRun, running>>

\* The plumbum operation a step is run by (lines 674-685).
MethodIgnoringQuiet(modifier, fg) ==
    IF modifier # "None" THEN modifier
    ELSE "TEE"

Method(modifier, fg) ==
    IF modifier # "None" THEN modifier
    ELSE IF fg THEN "TEE"
    ELSE "run"

\* What that operation returns for step k when the process ends with code.
ReturnedUncaptured(method, k, code) ==
    CASE method \in {"FG", "TEE"} -> None
      [] method = "BG" -> Future(k)
      [] OTHER -> Triple(k, code)

ReturnedAfterWaiting(method, k, code) ==
    CASE method = "FG" -> None
      [] OTHER -> Triple(k, code)

Returned(method, k, code) ==
    CASE method = "FG" -> None
      [] method = "BG" -> Future(k)
      [] OTHER -> Triple(k, code)

\* Lines 672, 694-695: dry run. The process is not run.
DryRunKeepingResult == result

DryRunResult == empty_result

ExecuteDry ==
    /\ pc = "exec"
    /\ ~execute_commands
    /\ result' = DryRunResult
    /\ outcome' = Outcome("dry", None, produced)
    /\ pc' = "fetch"
    /\ UNCHANGED <<treeState, mvars, dvars, send, pending, produced, step, thrown, run_kwargs,
                   flags, propagated, received, runs, lastRun, running, shown,
                   shownStep>>

\* Lines 552-557 and plumbum's modifiers: retcode=0, timeout=None unless given.
DefaultOptions == [retcode |-> "0", timeout |-> "None"]

\* Lines 676-685: modifier(**run_kwargs), TEE(**run_kwargs), run(**run_kwargs);
\* a bare modifier keeps its defaults.  A declared value is written "prepare".
Options(kwargs) ==
    [key \in _run_kws_ |-> IF key \in kwargs THEN "prepare" ELSE DefaultOptions[key]]

\* Lines 675-678: command & modifier(**run_kwargs) when run_kwargs is not
\* empty, else command & modifier.  Calling a modifier instance makes a new
\* instance of its class from the arguments of the call alone
\* (ExecutionModifier.__call__ is a classmethod: cls(*args, **kwargs)), with
\* the defaults of lines 552-554 for the rest.  An option the instance was
\* made with is written "step".
ModifierOptionsMerged(made, kwargs) ==
    [key \in _run_kws_ |->
        IF key \in kwargs THEN "prepare"
        ELSE IF key \in made THEN "step"
        ELSE DefaultOptions[key]]

ModifierOptions(made, kwargs) ==
    IF kwargs # {}
    THEN Options(kwargs)
    ELSE [key \in _run_kws_ |-> IF key \in made THEN "step" ELSE DefaultOptions[key]]

\* The call of the process descriptor's run/spawn operation for the step.
Invoke ==
    /\ runs' = runs + 1
    /\ lastRun' = [step |-> produced,
                   method |-> Method(step, foreground),
                   kwargs |-> run_kwargs,
                   options |-> IF step # "None"
                               THEN ModifierOptions(own, run_kwargs)
                               ELSE Options(run_kwargs)]

\* Lines 680-681: a modifier that returns None gives empty_result.
ResultOfRaw(returned) == returned

ResultOf(returned) == IF returned = None THEN empty_result ELSE returned

\* Lines 673-685, 692-693: the step is run and returns.
ExecuteOk ==
    /\ pc = "exec"
    /\ execute_commands
    /\ Invoke
    /\ \E code \in ExitCodes :
        LET returned == Returned(Method(step, foreground), produced, code)
        IN  /\ result' = ResultOf(returned)
            /\ outcome' = Outcome("ok", returned, produced)
    /\ running' = IF Method(step, foreground) = "BG"
                  THEN running \cup {produced}
                  ELSE running
    /\ thrown' = None
    /\ pc' = "fetch"
    /\ UNCHANGED <<treeState, mvars, dvars, send, pending, produced, step, run_kwargs, flags,
                   propagated, received, shown, shownStep>>

\* Whether the loop hands a failure to the iterator (line 687: if not send: raise).
KeepsAlways(snd) == TRUE

KeepsNever(snd) == FALSE

Keeps(snd) == snd

\* Lines 686-691: the run raises an Exception.
ExecuteFail ==
    /\ pc = "exec"
    /\ execute_commands
    /\ Invoke
    /\ LET exc == ProcessExecutionError(produced)
       IN  /\ outcome' = Outcome("fail", exc, produced)
           /\ IF Keeps(send)
              THEN /\ result' = None
                   /\ thrown' = exc
                   /\ pc' = "fetch"
                   /\ UNCHANGED propagated
              ELSE /\ propagated' = exc
                   /\ pc' = "raised"
                   /\ UNCHANGED <<result, thrown>>
    /\ UNCHANGED <<treeState, mvars, dvars, send, pending, produced, step, run_kwargs, flags,
                   received, running, shown, shownStep>>

\* A KeyboardInterrupt while the step runs: no Exception, so line 686 does
\* not catch it.
ExecuteInterrupt ==
    /\ pc = "exec"
    /\ execute_commands
    /\ Invoke
    /\ outcome' = Outcome("interrupt", KeyboardInterrupt(produced), produced)
    /\ propagated' = KeyboardInterrupt(produced)
    /\ pc' = "raised"
    /\ UNCHANGED <<treeState, mvars, dvars, send, pending, produced, step, result, thrown,
                   run_kwargs, flags, received, running, shown, shownStep>>

\* A process started in the background exits.
ProcessExit ==
    /\ \E k \in running : running' = running \ {k}
    /\ UNCHANGED <<treeState, mvars, dvars, pc, send, pending, produced, step, result,
                   thrown, run_kwargs, flags, propagated, received, outcome,
                   runs, lastRun, shown, shownStep>>

\* isinstance(exc, Exception): KeyboardInterrupt is no Exception.
IsExceptionAlways(exc) == TRUE

IsException(exc) == exc[1] # "KeyboardInterrupt"

\* The values args.traceback may have when main's handler reads it: the
\* parse stores True or False; it is absent when the class does not allow
\* the flag (_allow_traceback_, lines 403, 419) or the parse did not start.
Traceback == {"True", "False", "absent"}

\* main, line 78: args is None or getattr(args, 'traceback', True).
ReraisesOnlyWhenSet(namespace, tb) ==
    \/ namespace = "None"
    \/ tb = "True"

Reraises(namespace, tb) ==
    \/ namespace = "None"
    \/ (IF tb = "absent" THEN "True" ELSE tb) = "True"

\* main, lines 81-83: the message printed for exc.
ShortMessage(exc) == <<"[" \o exc[1] \o "]", exc[2]>>

\* main, lines 77-86: an exception has left the try block. An Exception is
\* raised again, or a message is printed and sys.exit(1) called; for a
\* KeyboardInterrupt "stopped" is printed and main returns.
MainExcept ==
    /\ pc = "raised"
    /\ finish = "no"
    /\ IF IsException(propagated)
       THEN \E tb \in Traceback :
                /\ traceback' = IF args = "None" THEN traceback ELSE tb
                /\ IF Reraises(args, tb)
                   THEN /\ finish' = "raise"
                        /\ printed' = printed
                   ELSE /\ finish' = "exit 1"
                        /\ printed' = ShortMessage(propagated)
       ELSE /\ finish' = "return"
            /\ printed' = <<"stopped">>
            /\ UNCHANGED traceback
    /\ UNCHANGED <<treeState, dvars, args, pc, send, pending, produced, step, result,
                   thrown, run_kwargs, flags, propagated, observed>>

\* main: command.call() returned, and main returns.
MainReturn ==
    /\ pc = "done"
    /\ finish = "no"
    /\ finish' = "return"
    /\ UNCHANGED <<treeState, dvars, args, traceback, printed, pc, send, pending,
                   produced, step, result, thrown, run_kwargs, flags, propagated,
                   observed>>

Next ==
    \/ CommandCall
    \/ LocalDelegate
    \/ Prepare
    \/ FetchStatic
    \/ RoutineYield
    \/ RoutineReturn
    \/ RoutineRaise
    \/ Show
    \/ ExecuteDry
    \/ ExecuteOk
    \/ ExecuteFail
    \/ ExecuteInterrupt
    \/ ProcessExit

Spec == Init /\ [][Next]_vars

NextReturn ==
    \/ CommandCall
    \/ LocalDelegate
    \/ PrepareReturning
    \/ FetchStatic
    \/ RoutineYield
    \/ RoutineReturn
    \/ RoutineRaise
    \/ Show
    \/ ExecuteDry
    \/ ExecuteOk
    \/ ExecuteFail
    \/ ExecuteInterrupt
    \/ ProcessExit

SpecReturn == InitReturn /\ [][NextReturn]_vars

\* A Local command whose routine returns its steps, with the flags a command
\* line with neither -q nor --show nor --no-show leaves, and with all that
\* the routine may declare.
InitOwn ==
    /\ Init
    /\ klass = "Local"
    /\ foreground
    /\ show_commands = "None"

NextOwn ==
    \/ CommandCall
    \/ LocalDelegate
    \/ PrepareOwn
    \/ FetchStatic
    \/ Show
    \/ ExecuteDry
    \/ ExecuteOk
    \/ ExecuteFail
    \/ ExecuteInterrupt
    \/ ProcessExit

SpecOwn == InitOwn /\ [][NextOwn]_vars

\* The steps of the thread that runs main: the call, and Local.__call__'s
\* loop. The thread keeps running: a step that can be taken is taken. When
\* a process started in the background exits is not the thread's to decide.
Thread ==
    \/ CommandCall
    \/ LocalDelegate
    \/ Prepare
    \/ FetchStatic
    \/ RoutineYield
    \/ RoutineReturn
    \/ RoutineRaise
    \/ Show
    \/ ExecuteDry
    \/ ExecuteOk
    \/ ExecuteFail
    \/ ExecuteInterrupt

\* Lines 581-616: a command line with neither -q nor --show nor --no-show
\* leaves foreground True and show_commands None; -d clears execute_commands.
InitFair ==
    /\ InitReturn
    /\ foreground
    /\ show_commands = "None"

\* A Local command whose routine declares no override, run to its end: every
\* step that is run finishes (ExecuteOk, ExecuteFail, ExecuteInterrupt), and
\* a generator yields MaxSteps steps at most.
SpecFair == InitFair /\ [][Next]_vars /\ WF_vars(Thread)

\* main from its first line: args is None.
InitMain ==
    /\ defs = <<>>
    /\ Declared
    /\ schema = <<>>
    /\ routine = NoRoutine
    /\ InitTree
    /\ klass \in {"Command", "Local"}
    /\ method_name = ""
    /\ call_args = <<>>
    /\ signature = <<>>
    /\ passed = <<>>
    /\ entered = {}
    /\ attributes = {}
    /\ args = "None"
    /\ traceback = "unread"
    /\ printed = None
    /\ finish = "no"
    /\ pc = "start"
    /\ send = FALSE
    /\ pending = <<>>
    /\ produced = 0
    /\ step = "None"
    /\ result = None
    /\ thrown = None
    /\ run_kwargs = {}
    /\ execute_commands \in BOOLEAN
    /\ foreground \in BOOLEAN
    /\ show_commands \in Tri
    /\ propagated = None
    /\ received = <<"never", None>>
    /\ outcome = NoOutcome
    /\ runs = 0
    /\ lastRun = NoRun
    /\ running = {}
    /\ shown = 0
    /\ shownStep = 0

NextMain ==
    \/ MainStart
    \/ CommandCall
    \/ LocalDelegate
    \/ Prepare
    \/ FetchStatic
    \/ RoutineYield
    \/ RoutineReturn
    \/ RoutineRaise
    \/ Show
    \/ ExecuteDry
    \/ ExecuteOk
    \/ ExecuteFail
    \/ ExecuteInterrupt
    \/ ProcessExit
    \/ MainExcept
    \/ MainReturn

SpecMain == InitMain /\ [][NextMain]_vars

\* ---------------------------------------------- the command tree, built

\* main and the interpreter at rest, for the specifications of the tree.
InitIdle ==
    /\ klass = "Command"
    /\ method_name = ""
    /\ call_args = <<>>
    /\ signature = <<>>
    /\ passed = <<>>
    /\ entered = {}
    /\ attributes = {}
    /\ args = "Namespace"
    /\ traceback = "unread"
    /\ printed = None
    /\ finish = "no"
    /\ pc = "main"
    /\ send = FALSE
    /\ pending = <<>>
    /\ produced = 0
    /\ step = "None"
    /\ result = None
    /\ thrown = None
    /\ run_kwargs = {}
    /\ execute_commands = TRUE
    /\ foreground = TRUE
    /\ show_commands = "None"
    /\ propagated = None
    /\ received = <<"never", None>>
    /\ outcome = NoOutcome
    /\ runs = 0
    /\ lastRun = NoRun
    /\ running = {}
    /\ shown = 0
    /\ shownStep = 0

\* The definitions are given; _build_interface_ has not run.
InitDefs ==
    /\ defs \in DefSets
    /\ Declared
    /\ schema = [i \in 1..Len(defs) |-> {}]
    /\ routine = NoRoutine
    /\ InitTree
    /\ InitIdle

\* The whole tree is built: the _build_interface_ generator is exhausted.
Built == built > 0 /\ built = Len(defs)

\* The namespace of a call of _build_interface_ (lines 441-442, 471): the one
\* the parent's call passes on, or a new one, fresh, for the root.
NamespaceNew(parent, fresh) == fresh

NamespaceOf(parent, fresh) == IF parent = 0 THEN fresh ELSE _args_[parent]

\* _build_interface_ for the next class: the command is constructed, its
\* _parents_ and _children_ are set (lines 444-448), it is entered in its
\* parent's _children_ under its name (lines 450-451); parents is
\* subparents = (command,) + parents of the parent's call (line 460).
BuildNode ==
    /\ built < Len(defs)
    /\ failed = None
    /\ LET i == built + 1
           p == defs[i].parent
           parents == IF p = 0 THEN <<>> ELSE <<p>> \o _parents_[p]
           chained == IF p = 0 THEN _children_
                      ELSE [_children_ EXCEPT ![p] = DictSet(@, defs[i].name, i)]
       IN  /\ built' = i
           /\ _parents_' = Append(_parents_, parents)
           /\ _children_' = Append(chained, <<>>)
           /\ _args_' = Append(_args_, NamespaceOf(p, heap + 1))
           /\ constructing' = NotConstructing
           /\ cache' = Append(cache, 0)
           /\ seen' = Append(seen, 0)
           /\ heap' = IF p = 0 THEN 1 ELSE heap
           /\ ns' = IF p = 0 THEN <<EmptyDict>> ELSE ns
    /\ UNCHANGED <<runState, defs, nested, registry, failed, lookup, _command_, access,
                   schema, scenario>>

\* Whether the parent's _children_ has the name (chain[cls.name], line 451)
\* and so its sub-parsers have it too (lines 432, 468).
Conflicts(parent, name) == parent # 0 /\ DictGet(_children_[parent], name) # 0

\* An earlier command has been replaced in its parent's _children_: this
\* argparse lets add_parser take a name twice (Python before 3.11).
Replaced ==
    \E i \in 1..built :
        defs[i].parent # 0 /\ DictGet(_children_[defs[i].parent], defs[i].name) # i

\* _build_interface_ for the next class, whose name its parent's sub-parsers
\* have already: from Python 3.11 add_parser raises (line 468) and the class
\* is not constructed. argcmdr itself makes no check: with an older argparse
\* BuildNode goes on, and line 451 replaces the earlier command.
BuildConflict ==
    /\ built < Len(defs)
    /\ failed = None
    /\ constructing = NotConstructing
    /\ Conflicts(defs[built + 1].parent, defs[built + 1].name)
    /\ ~Replaced
    /\ failed' = ArgumentError
    /\ UNCHANGED <<runState, defs, nested, registry, built, _children_, _parents_, _args_,
                   constructing, lookup, avars, nvars, scenario>>

\* _get_parents_()[-1 - head]
AncestorIndexOffByOne(head) == -head

AncestorIndex(head) == -1 - head

\* if head >= 0: raise ValueError
IsPositive(head) == head > 0

IsNonNegative(head) == head >= 0

\* Command.__getitem__ on a sequence of tokens (lines 286-307).
RECURSIVE GetItemSeqFromTheRight(_, _)
GetItemSeqFromTheRight(self, key) ==
    IF key = <<>> THEN Returns(self)
    ELSE
        LET head == key[Len(key)]
            rest == SubSeq(key, 1, Len(key) - 1)
        IN  IF head.t = "str"
            THEN LET item == DictGet(_children_[self], head.s)
                 IN  IF item = 0 THEN Raises("KeyError")
                     ELSE GetItemSeqFromTheRight(item, rest)
            ELSE IF head.t = "int"
            THEN IF IsNonNegative(head.n) THEN Raises("ValueError")
                 ELSE LET item == PyIndex(_parents_[self], AncestorIndex(head.n))
                      IN  IF item = 0 THEN Raises("IndexError")
                          ELSE GetItemSeqFromTheRight(item, rest)
            ELSE Raises("TypeError")

RECURSIVE GetItemSeq(_, _)
GetItemSeq(self, key) ==
    IF key = <<>> THEN Returns(self)
    ELSE
        LET head == key[1]
        IN  IF head.t = "str"
            THEN LET item == DictGet(_children_[self], head.s)
                 IN  IF item = 0 THEN Raises("KeyError")
                     ELSE GetItemSeq(item, Tail(key))
            ELSE IF head.t = "int"
            THEN IF IsNonNegative(head.n) THEN Raises("ValueError")
                 ELSE LET item == PyIndex(_parents_[self], AncestorIndex(head.n))
                      IN  IF item = 0 THEN Raises("IndexError")
                          ELSE GetItemSeq(item, Tail(key))
            ELSE Raises("TypeError")

\* Command.__getitem__: a key that is a str or bytes, or no sequence, is
\* looked up as (key,) (lines 283-284).
GetItem(self, key) ==
    IF ~key.seq THEN GetItemSeq(self, <<key.toks[1]>>)
    ELSE GetItemSeq(self, key.toks)

\* Command.root: the last of _parents_, or None (0).
Root(self) == Returns(PyIndex(_parents_[self], -1))

\* command[key] on a command of the built tree.
Lookup ==
    /\ Built
    /\ lookup = NoLookup
    /\ \E self \in 1..built, key \in Keys :
        lookup' = [what |-> "getitem", node |-> self, key |-> key,
                   found |-> GetItem(self, key)]
    /\ UNCHANGED <<runState, tvars, avars, nvars, scenario>>

\* command.root on a command of the built tree.
ReadRoot ==
    /\ Built
    /\ lookup = NoLookup
    /\ \E self \in 1..built :
        lookup' = [what |-> "root", node |-> self, key |-> NoLookup.key,
                   found |-> Root(self)]
    /\ UNCHANGED <<runState, tvars, avars, nvars, scenario>>

\* The caller has taken what the lookup gave.
LookupDone ==
    /\ lookup # NoLookup
    /\ lookup' = NoLookup
    /\ UNCHANGED <<runState, tvars, avars, nvars, scenario>>

NextTree ==
    \/ BuildNode
    \/ BuildConflict
    \/ Lookup
    \/ ReadRoot
    \/ LookupDone

SpecTree == InitDefs /\ [][NextTree]_vars

\* ------------------------------------------- the namespace and its views

\* The shared namespace, _new_namespace_(): the first Namespace object.
SharedNamespace == 1

\* The defaults of the parser of the command n: the default of each action
\* (its destination is the key), and the parser-level defaults _command_ and
\* _parser_ (lines 453-456).
ParserDefaults(n) ==
    [k \in schema[n] \cup {"_command_", "_parser_"} |->
        IF k = "_command_" THEN CommandValue(n)
        ELSE IF k = "_parser_" THEN ParserValue(n)
        ELSE OptionDefault(n)]

\* The commands whose parsers read the command line that selects n: n and
\* its ancestors.
Parsers(n) == {n} \cup {_parents_[n][i] : i \in 1..Len(_parents_[n])}

\* What parse_args may leave in the namespace when the command line selects
\* n: _command_ and _parser_ are those of n; each destination declared by a
\* parser that read the command line holds the value given there, or the
\* default of one of the parsers that declare it.
Parsed(n) ==
    LET dests == UNION {schema[c] : c \in Parsers(n)}
        values(k) == {GivenValue} \cup
                     {OptionDefault(c) : c \in {c \in Parsers(n) : k \in schema[c]}}
    IN  {[k \in dests \cup {"_command_", "_parser_"} |->
            IF k = "_command_" THEN CommandValue(n)
            ELSE IF k = "_parser_" THEN ParserValue(n)
            ELSE opts[k]] :
         opts \in {o \in [dests -> {GivenValue} \cup {OptionDefault(c) : c \in Parsers(n)}] :
                      \A k \in dests : o[k] \in values(k)}}

\* The commands the command line can select: the root, and every command
\* its parent's sub-parsers reach by its name.
RECURSIVE Selectable(_)
Selectable(n) ==
    IF defs[n].parent = 0 THEN TRUE
    ELSE /\ DictGet(_children_[defs[n].parent], defs[n].name) = n
         /\ Selectable(defs[n].parent)

\* parser.parse_args(argv, args): the defaults of the parser of the command
\* the command line selects set args._command_ (lines 453-456).
Parse ==
    /\ Built
    /\ _command_ = 0
    /\ \E n \in 1..built :
        /\ Selectable(n)
        /\ _command_' = n
        /\ \E parsed \in Parsed(n) :
            ns' = [ns EXCEPT ![SharedNamespace] = parsed]
    /\ UNCHANGED <<runState, tvars, lookup, cache, heap, seen, access, schema, scenario>>

\* args._command_ is not self (line 331), negated.
IsSelectedOrItsAncestor(self, command) ==
    \/ command = self
    \/ \E k \in 1..Len(_parents_[command]) : _parents_[command][k] = self

IsSelected(self, command) == command = self

\* _cachedproperty: whether the value is taken from the cache.
CachedNever(cached) == FALSE

Cached(cached) == cached # 0

\* Command.args (lines 327-357) with delegate_args (lines 359-370): the
\* object returned, and the cache and the heap after the access.
Args(self) ==
    IF IsSelected(self, _command_)
    THEN [obj |-> SharedNamespace, cache |-> cache, heap |-> heap]
    ELSE IF Cached(cache[self])
    THEN [obj |-> cache[self], cache |-> cache, heap |-> heap]
    ELSE [obj |-> heap + 1,
          cache |-> [cache EXCEPT ![self] = heap + 1],
          heap |-> heap + 1]

\* Command.delegate_args (lines 359-370) on the namespace shared: the
\* __dict__ of the copy.
DelegateArgsOfDefaults(self, shared) ==
    SetDefaults(SetItem(EmptyDict, "_parser_", ParserValue(self)), ParserDefaults(self))

DelegateArgs(self, shared) ==
    SetDefaults(SetItem(shared, "_parser_", ParserValue(self)), ParserDefaults(self))

\* The heap of Namespace objects after command.args has given a: when
\* delegate_args was computed, the copy holds what it computed.
Dicts(self, a) ==
    IF a.heap = heap THEN ns
    ELSE Store(ns, Copy(SharedNamespace, a.obj), DelegateArgs(self, ns[SharedNamespace]))

\* Namespace objects are made by copy.copy as long as this many exist at most.
MaxObjects == MaxNodes + MaxNodes + 1

\* command.args is read.
AccessArgs ==
    /\ _command_ # 0
    /\ heap < MaxObjects
    /\ \E self \in 1..built :
        LET a == Args(self)
        IN  /\ access' = [what |-> "args", node |-> self, obj |-> a.obj]
            /\ cache' = a.cache
            /\ heap' = a.heap
            /\ seen' = [seen EXCEPT ![self] = a.obj]
            /\ ns' = Dicts(self, a)
    /\ UNCHANGED <<runState, tvars, lookup, _command_, schema, scenario>>

\* command.delegate(...): nspace = self.args is the first of call_args
\* (lines 380-381).
DelegateTo ==
    /\ _command_ # 0
    /\ heap < MaxObjects
    /\ \E self \in 1..built :
        LET a == Args(self)
        IN  /\ access' = [what |-> "delegate", node |-> self, obj |-> a.obj]
            /\ cache' = a.cache
            /\ heap' = a.heap
            /\ seen' = [seen EXCEPT ![self] = a.obj]
            /\ ns' = Dicts(self, a)
    /\ UNCHANGED <<runState, tvars, lookup, _command_, schema, scenario>>

NextArgs ==
    \/ BuildNode
    \/ BuildConflict
    \/ Parse
    \/ AccessArgs
    \/ DelegateTo

SpecArgs == InitDefs /\ [][NextArgs]_vars

\* Trees of this many commands at most have commands that declare options.
MaxViewNodes == 2

\* The definitions are given, each class with the options its __init__
\* declares; _build_interface_ has not run.
InitViews ==
    /\ defs \in {d \in DefSets : Len(d) <= MaxViewNodes}
    /\ Declared
    /\ schema \in [1..Len(defs) -> SUBSET OptionKeys]
    /\ routine = NoRoutine
    /\ InitTree
    /\ InitIdle

\* Two commands have no two children of one parent: no name is taken twice.
NextViews ==
    \/ BuildNode
    \/ Parse
    \/ AccessArgs
    \/ DelegateTo

SpecViews == InitViews /\ [][NextViews]_vars

\* ------------------------- a routine that delegates to its parent's routine

\* Two Local commands: Build, the root, and Deploy, nested in it.
Build == 1

Deploy == 2

DeployDefs == <<[parent |-> 0, name |-> "root"], [parent |-> Build, name |-> "a"]>>

\* Each routine produces this many steps at most.
MaxOwnSteps == 2

\* The steps a routine of the two may produce: bare process descriptors.
OwnSteps == UNION {[1..n -> {"None"}] : n \in 0..MaxOwnSteps}

\* The command line "deploy" with no flags, before main: Deploy's prepare is
\*     yield from self[-1].delegate()
\*     yield from (its own steps)
\* and Build's prepare returns its steps.
InitDeploy ==
    /\ defs = DeployDefs
    /\ Declared
    /\ schema \in [1..Len(defs) -> SUBSET OptionKeys]
    /\ routine \in {[phase |-> "start", build |-> b, deploy |-> d, i |-> 0, j |-> 0] :
                        b \in OwnSteps, d \in OwnSteps}
    /\ InitTree
    /\ klass = "Local"
    /\ method_name = ""
    /\ call_args = <<>>
    /\ signature = <<>>
    /\ passed = <<>>
    /\ entered = {}
    /\ attributes = {}
    /\ args = "Namespace"
    /\ traceback = "unread"
    /\ printed = None
    /\ finish = "no"
    /\ pc = "main"
    /\ send = FALSE
    /\ pending = <<>>
    /\ produced = 0
    /\ step = "None"
    /\ result = None
    /\ thrown = None
    /\ run_kwargs = {}
    /\ execute_commands = TRUE
    /\ foreground = TRUE
    /\ show_commands = "None"
    /\ propagated = None
    /\ received = <<"never", None>>
    /\ outcome = NoOutcome
    /\ runs = 0
    /\ lastRun = NoRun
    /\ running = {}
    /\ shown = 0
    /\ shownStep = 0

\* main, line 74: the command line selects Deploy.
ParseDeploy ==
    /\ Parse
    /\ _command_' = Deploy

\* main, lines 75-76: command = args._command_; command.call().
MainCall ==
    /\ _command_ = Deploy
    /\ CommandCall

\* Local.__call__, lines 634-652: Deploy's prepare is a generator function.
DeployPrepare ==
    /\ pc = "prepare"
    /\ method_name' = ""
    /\ call_args' = <<>>
    /\ signature' = <<>>
    /\ passed' = <<>>
    /\ run_kwargs' = RunKwargs(attributes)
    /\ send' = TRUE
    /\ pc' = "fetch"
    /\ UNCHANGED <<treeState, mvars, klass, attributes, entered, pending, produced, step, result, thrown,
                   propagated, flags, observed>>

\* The generator is resumed for the first time: self[-1].delegate(), that
\* is Local.delegate on Build: nspace = self.args, then Build's prepare is
\* called with the context (args, parser, local) and returns its steps.
DeployStart ==
    /\ pc = "fetch"
    /\ send
    /\ routine.phase = "start"
    /\ LET key == [seq |-> FALSE, toks |-> <<IntToken(-1)>>]
           found == GetItem(Deploy, key)
           a == Args(found.node)
       IN  /\ lookup' = [what |-> "getitem", node |-> Deploy, key |-> key,
                          found |-> found]
           /\ access' = [what |-> "delegate", node |-> found.node, obj |-> a.obj]
           /\ cache' = a.cache
           /\ heap' = a.heap
           /\ seen' = [seen EXCEPT ![found.node] = a.obj]
           /\ ns' = Dicts(found.node, a)
    /\ \E sig \in Signatures :
        LET d == Delegate("prepare", sig, LocalContext)
        IN  /\ propagated' = d.raised
            /\ IF d.raised # None
               THEN /\ method_name' = "prepare"
                    /\ call_args' = LocalContext
                    /\ signature' = sig
                    /\ passed' = d.passed
                    /\ pc' = "raised"
                    /\ routine' = [routine EXCEPT !.phase = "raised"]
               ELSE /\ method_name' = ""
                    /\ call_args' = <<>>
                    /\ signature' = <<>>
                    /\ passed' = <<>>
                    /\ pc' = pc
                    /\ routine' = [routine EXCEPT !.phase = "build"]
    /\ UNCHANGED <<tvars, _command_, schema, owners, commands, handed, own, mvars, klass, attributes, entered, send, pending,
                   produced, step, result, thrown, run_kwargs, flags, observed>>

\* The generator is resumed (lines 656-661). An exception thrown into it
\* leaves it; otherwise it yields the next of Build's steps, then the next of
\* its own, then returns.
DeployYield ==
    /\ pc = "fetch"
    /\ send
    /\ routine.phase = "build"
    /\ received' = Resume(send, result, thrown)
    /\ IF received'[1] = "throw"
       THEN /\ propagated' = received'[2]
            /\ pc' = "raised"
            /\ routine' = [routine EXCEPT !.phase = "raised"]
            /\ UNCHANGED <<owners, step, produced>>
       ELSE IF routine.i < Len(routine.build)
       THEN /\ step' = routine.build[routine.i + 1]
            /\ routine' = [routine EXCEPT !.i = @ + 1]
            /\ owners' = Append(owners, "build")
            /\ produced' = produced + 1
            /\ pc' = "show"
            /\ UNCHANGED propagated
       ELSE IF routine.j < Len(routine.deploy)
       THEN /\ step' = routine.deploy[routine.j + 1]
            /\ routine' = [routine EXCEPT !.j = @ + 1]
            /\ owners' = Append(owners, "deploy")
            /\ produced' = produced + 1
            /\ pc' = "show"
            /\ UNCHANGED propagated
       ELSE /\ pc' = "done"
            /\ routine' = [routine EXCEPT !.phase = "returned"]
            /\ UNCHANGED <<owners, step, produced, propagated>>
    /\ UNCHANGED <<tvars, lookup, avars, nvars, commands, handed, own, dvars, mvars, send, pending, result,
                   thrown, run_kwargs, flags, outcome, runs, lastRun, running, shown,
                   shownStep>>

NextDeploy ==
    \/ BuildNode
    \/ ParseDeploy
    \/ MainCall
    \/ LocalDelegate
    \/ DeployPrepare
    \/ DeployStart
    \/ DeployYield
    \/ Show
    \/ ExecuteOk
    \/ ExecuteFail
    \/ ExecuteInterrupt

SpecDeploy == InitDeploy /\ [][NextDeploy]_vars

\* --------------------------------------------------- the built tree in use

\* Trees of this many commands at most are put to every use.
MaxUseNodes == 2

\* The lookup paths on them have this many tokens at most.
MaxUsePath == 1

ShortKeys == {key \in Keys : Len(key.toks) <= MaxUsePath}

\* What iteration gives: the commands, in the order they are yielded.
Yields(nodes) == [exc |-> "None", node |-> 0, nodes |-> nodes]

\* Command.__iter__ (lines 309-310): the values of _children_, in the order
\* of the dict.
Iter(self) == [i \in 1..Len(_children_[self]) |-> _children_[self][i][2]]

\* list(command) on a command of the built tree.
Iterate ==
    /\ Built
    /\ lookup = NoLookup
    /\ \E self \in 1..built :
        lookup' = [what |-> "iter", node |-> self, key |-> NoLookup.key,
                   found |-> Yields(Iter(self))]
    /\ UNCHANGED <<runState, tvars, avars, nvars, scenario>>

\* command[key] with a short path.
LookupShort ==
    /\ Built
    /\ lookup = NoLookup
    /\ \E self \in 1..built, key \in ShortKeys :
        lookup' = [what |-> "getitem", node |-> self, key |-> key,
                   found |-> GetItem(self, key)]
    /\ UNCHANGED <<runState, tvars, avars, nvars, scenario>>

\* main, lines 75-76: the selected command's __call__(self, args) is called.
UseCall ==
    /\ _command_ # 0
    /\ CommandCall
    /\ signature' = LocalCallSignature

InitUse ==
    /\ defs \in {d \in DefSets : Len(d) <= MaxUseNodes}
    /\ Declared
    /\ schema = [i \in 1..Len(defs) |-> {}]
    /\ routine = NoRoutine
    /\ InitTree
    /\ InitIdle

NextUse ==
    \/ BuildNode
    \/ Parse
    \/ LookupShort
    \/ ReadRoot
    \/ Iterate
    \/ LookupDone
    \/ AccessArgs
    \/ DelegateTo
    \/ UseCall

SpecUse == InitUse /\ [][NextUse]_vars

\* ------------------------------------------- a command under construction

\* getattr(self, name, None) in __init__ (lines 320, 492, 500): has says
\* whether Command.__init__ has run and set the attribute, to None (lines
\* 269-273); otherwise there is no such attribute and the default is given.
GetAttrStrict(has, value) == IF has THEN value ELSE "AttributeError"

GetAttr(has, value) == IF has THEN value ELSE "None"

\* _get_children_, _get_parents_ and get_args (lines 491-505, 319-325) on the
\* command under construction: what they raise.
Unwired(base) ==
    LET attr == GetAttr(base, "None")
    IN  IF attr = "None" THEN "RuntimeError" ELSE attr

\* Command.__getitem__ (lines 282-307) on the command under construction.
GetItemUnwired(self, base, key) ==
    LET toks == IF key.seq THEN key.toks ELSE <<key.toks[1]>>
    IN  IF toks = <<>> THEN Returns(self)
        ELSE IF toks[1].t = "str" THEN Raises(Unwired(base))
        ELSE IF toks[1].t = "int"
        THEN IF IsNonNegative(toks[1].n) THEN Raises("ValueError")
             ELSE Raises(Unwired(base))
        ELSE Raises("TypeError")

\* Line 444, cls(parser): the next class's __init__ is entered; it may have
\* run Command.__init__ by the time it uses the command, or never run it.
EnterInit ==
    /\ built < Len(defs)
    /\ failed = None
    /\ constructing = NotConstructing
    /\ \E base \in BOOLEAN : constructing' = [node |-> built + 1, base |-> base]
    /\ UNCHANGED <<runState, defs, nested, registry, built, _children_, _parents_, _args_,
                   failed, lookup, avars, nvars, scenario>>

\* self[key] in __init__.
InitLookup ==
    /\ constructing # NotConstructing
    /\ lookup = NoLookup
    /\ \E key \in ShortKeys :
        lookup' = [what |-> "getitem", node |-> constructing.node, key |-> key,
                   found |-> GetItemUnwired(constructing.node, constructing.base, key)]
    /\ UNCHANGED <<runState, tvars, avars, nvars, scenario>>

\* list(self), self.root or self.args in __init__ (lines 309-329).
InitRead ==
    /\ constructing # NotConstructing
    /\ lookup = NoLookup
    /\ \E what \in {"iter", "root", "args"} :
        lookup' = [what |-> what, node |-> constructing.node, key |-> NoLookup.key,
                   found |-> Raises(Unwired(constructing.base))]
    /\ UNCHANGED <<runState, tvars, avars, nvars, scenario>>

\* __init__ returns, and lines 445-451 wire the command into the tree.
Wire ==
    /\ constructing # NotConstructing
    /\ lookup = NoLookup
    /\ BuildNode

NextInit ==
    \/ EnterInit
    \/ InitLookup
    \/ InitRead
    \/ LookupDone
    \/ Wire
    \/ BuildConflict

SpecInit == InitDefs /\ [][NextInit]_vars

\* ------------------------------------------------ registered sub-commands

\* The root class is a RootCommand with commands registered to it, or none,
\* or a plain Command; the build visits its sub-commands in the order of
\* _subcommands_ (line 461), each followed by what it nests.
InitRegistry ==
    /\ defs \in DefSets
    /\ nested \in NameSeqs
    /\ registry \in {None} \cup NameSeqs
    /\ ChildNames(defs, 1) = Subcommands(nested, registry)
    /\ schema = [i \in 1..Len(defs) |-> {}]
    /\ routine = NoRoutine
    /\ InitTree
    /\ InitIdle

NextRegistry ==
    \/ BuildNode
    \/ BuildConflict
    \/ Iterate
    \/ LookupDone

SpecRegistry == InitRegistry /\ [][NextRegistry]_vars

\* ------------------------------------------------------------------ claims

\* The iterator is resumed in this step (lines 656-661 are executed).
Resumed == pc = "fetch" /\ pc' # "fetch"

\* C1: at every step reached while dry-run is active (args.execute_commands
\* is false when line 672 reads it) no run/spawn operation of a process
\* descriptor is invoked, and a resumable routine receives (None, None, None)
\* at its next resumption.
C1_DryRunRunsNothing ==
    /\ [][(pc = "exec" /\ ~execute_commands)
            => (runs' = runs /\ lastRun' = lastRun /\ running' \subseteq running)]_vars
    /\ [][(Resumed /\ send /\ outcome.kind = "dry")
            => received' = <<"send", <<"None", "None", "None">>>>]_vars

\* C1 witness: a routine that ran its first step, switched dry-run on for its
\* second and was resumed with the all-absent triple.
C1_Witness ==
    /\ pc = "show"
    /\ produced = 3
    /\ runs = 1
    /\ outcome.kind = "dry"
    /\ outcome.step = 2
    /\ received = <<"send", <<"None", "None", "None">>>>

\* C2: when a step run for a resumable routine fails, the failure is raised
\* inside the routine at the suspension point that produced the step; if the
\* routine then returns the loop completes without an exception; if the
\* failure leaves the routine it leaves the interpreter, the same exception,
\* and nothing more is shown or run.  (What leaves the routine at that
\* resumption is this failure, one thrown into it earlier that it still
\* held, or an exception of its own.)
C2_FailureIsThrownIn ==
    /\ [][(Resumed /\ send /\ outcome.kind = "fail")
            => /\ received' = <<"throw", outcome.value>>
               /\ outcome.step = produced
               /\ pc' = "done" => propagated' = None
               /\ (pc' = "raised" /\ propagated'[1] # "RoutineError")
                    => propagated' \in handed \cup {outcome.value}]_vars
    /\ [][pc = "raised" => (pc' = "raised" /\ runs' = runs /\ shown' = shown)]_vars

\* C2 witness: the failure of the second step was thrown into the routine,
\* left it and left the interpreter.
C2_Witness ==
    /\ pc = "raised"
    /\ send
    /\ received = <<"throw", ProcessExecutionError(2)>>
    /\ propagated = ProcessExecutionError(2)
    /\ runs = 2

\* C3: for a routine that returns one step or a static sequence of steps, the
\* first failure of a step leaves the interpreter at once: no later step of
\* the sequence is shown or run.
C3_StaticFailurePropagates ==
    (~send /\ outcome.kind = "fail")
        => /\ pc = "raised"
           /\ propagated = outcome.value
           /\ outcome.step = produced
           /\ lastRun.step = produced
           /\ shownStep <= produced
           /\ runs <= produced

\* C3 witness: the second of three steps failed; the third is still in the
\* sequence.
C3_Witness ==
    /\ pc = "raised"
    /\ ~send
    /\ Len(pending) = 1
    /\ propagated = ProcessExecutionError(2)
    /\ runs = 2

\* C4 as stated: a resumable routine is resumed to produce step k+1 only
\* after step k has finished, and the value it receives then is the
\* (exit code, stdout, stderr) result of step k.
C4_AsStated ==
    [][(Resumed /\ send /\ outcome.kind = "ok")
        => /\ outcome.step \notin running
           /\ Len(outcome.value) = 3
           /\ received' = <<"send", outcome.value>>]_vars

\* C4, amended: steps are started one at a time in the order the routine
\* produces them; the routine is resumed to produce step k+1 only after the
\* run of step k has returned, which for every strategy but Background means
\* that its process has exited; and when step k succeeded on the default
\* path, under TEE or under SHH, the value received at that resumption is its
\* (exit code, stdout, stderr) result.
C4_OneAtATime ==
    /\ [][produced' # produced
            => /\ produced' = produced + 1
               /\ pc = "fetch"
               /\ produced > 0 => outcome.step = produced]_vars
    /\ [][(Resumed /\ send /\ outcome.kind = "ok")
            => /\ lastRun.step = produced
               /\ lastRun.method # "BG" => outcome.step \notin running
               /\ lastRun.method \in {"run", "TEE", "SHH"}
                    => /\ Len(outcome.value) = 3
                       /\ outcome.value[1] \in {"0", "1"}
                       /\ received' = <<"send", outcome.value>>]_vars

\* C4 witness: the routine was resumed for its third step with the triple of
\* its second.
C4_Witness ==
    /\ pc = "show"
    /\ produced = 3
    /\ received = <<"send", Triple(2, 1)>>
    /\ lastRun.step = 2
    /\ lastRun.method = "run"

\* The positions after the first c of the parameters without a default.
RECURSIVE RequiredBeyond(_, _, _)
RequiredBeyond(sig, c, i) ==
    IF i > Len(sig) THEN <<>>
    ELSE IF i > c /\ ~sig[i] THEN <<i>> \o RequiredBeyond(sig, c, i + 1)
    ELSE RequiredBeyond(sig, c, i + 1)

\* A delegation has been made and its call is in progress or has ended.
Delegated == call_args # <<>>

\* C5: when delegation succeeds with c context items and the routine
\* declares n parameters, the routine is called with exactly the first
\* min(n, c) context items in order: a routine without parameters receives
\* none, a defaulted parameter within the first c positions receives the
\* context item, one beyond position c keeps its declared default.
C5_PrefixOfContext ==
    (Delegated /\ propagated = None)
        => LET n == Len(signature)
               c == Len(call_args)
               m == IF n < c THEN n ELSE c
           IN  /\ method_name \in entered
               /\ passed = SubSeq(call_args, 1, m)
               /\ n = 0 => passed = <<>>
               /\ \A i \in 1..n :
                    /\ i <= c => Bind(signature, passed)[i] = call_args[i]
                    /\ i > c => /\ signature[i]
                                /\ Bind(signature, passed)[i] = "default"

\* C5 witness: prepare(self, args, parser=..., local=..., lang=...) is
\* called with (args, parser, local).
C5_Witness ==
    /\ pc = "prepare"
    /\ signature = <<FALSE, TRUE, TRUE, TRUE>>
    /\ call_args = <<"args", "parser", "local">>
    /\ passed = <<"args", "parser", "local">>
    /\ "prepare" \in entered

\* C6: if the routine declares parameters without a default at positions
\* beyond the context items, delegation fails with a TypeError whose message
\* names exactly those parameters, in declaration order; the routine's body
\* is never entered and no step is run.
C6_TooManyRequired ==
    (Delegated /\ RequiredBeyond(signature, Len(call_args), 1) # <<>>)
        => /\ pc = "raised"
           /\ propagated =
                <<"TypeError",
                  method_name \o "() requires too many positional arguments: "
                    \o JoinNames(RequiredBeyond(signature, Len(call_args), 1))>>
           /\ method_name \notin entered
           /\ passed = <<>>
           /\ runs = 0
           /\ shown = 0
           /\ produced = 0

\* C6 witness: prepare(self, args, parser, local, lang) fails, naming lang
\* alone.
C6_Witness ==
    /\ klass = "Local"
    /\ signature = <<FALSE, FALSE, FALSE, FALSE>>
    /\ propagated =
        <<"TypeError", "prepare() requires too many positional arguments: 'p4'">>
    /\ entered = {"__call__"}

\* The ancestor chain the definitions give a command, nearest first.
RECURSIVE Chain(_)
Chain(n) == IF defs[n].parent = 0 THEN <<>> ELSE <<defs[n].parent>> \o Chain(defs[n].parent)

\* The lookup made is command[key] with the tokens toks (as a tuple or list,
\* or, for one token, as the token itself).
LookedUp(toks) == lookup.what = "getitem" /\ lookup.key.toks = toks

\* C7: for every command n of a built tree with the ancestor chain
\* (p0, ..., p(d-1)), nearest first, and every k in 1..d, n[-k] is p(k-1);
\* so root[a, b][-2] is root and root[a, b][-1] is root[a] for every
\* two-level descent a, b; and n.root is the last of the chain, None for the
\* root.
C7_Ascend ==
    /\ \A n \in 1..built : _parents_[n] = Chain(n)
    /\ \A k \in 1..MaxNodes :
        (LookedUp(<<IntToken(-k)>>) /\ k <= Len(Chain(lookup.node)))
            => lookup.found = Returns(Chain(lookup.node)[k])
    /\ Built =>
        \A a \in Names, b \in Names :
            LET x == GetItem(1, [seq |-> TRUE, toks |-> <<StrToken(a), StrToken(b)>>])
            IN  x.exc = "None" =>
                    /\ GetItem(x.node, [seq |-> FALSE, toks |-> <<IntToken(-2)>>])
                         = Returns(1)
                    /\ GetItem(x.node, [seq |-> FALSE, toks |-> <<IntToken(-1)>>])
                         = GetItem(1, [seq |-> FALSE, toks |-> <<StrToken(a)>>])
    /\ lookup.what = "root" =>
        LET chain == Chain(lookup.node)
        IN  lookup.found =
                Returns(IF chain = <<>> THEN 0 ELSE chain[Len(chain)])

\* C7 witness: n[-2] on a command three levels down gave its grandparent,
\* which is not the root.
C7_Witness ==
    /\ LookedUp(<<IntToken(-2)>>)
    /\ Len(_parents_[lookup.node]) = 3
    /\ lookup.found = Returns(_parents_[lookup.node][2])
    /\ lookup.found.node # 1

\* C8: a lookup that fails returns no node and changes no node. Where the
\* tokens before the last resolve to a command m: a last token that is a
\* string naming no child of m raises KeyError, a negative integer reaching
\* beyond m's ancestor chain raises IndexError, a non-negative integer
\* raises ValueError, and a token that is neither raises TypeError.
C8_LookupErrors ==
    /\ [](lookup.found.exc # "None" => lookup.found.node = 0)
    /\ [](lookup.what = "getitem" /\ lookup.key.toks # <<>> =>
            LET toks == lookup.key.toks
                m == GetItemSeq(lookup.node, SubSeq(toks, 1, Len(toks) - 1))
                last == toks[Len(toks)]
            IN  m.exc = "None" =>
                  /\ (last.t = "str"
                        /\ \A i \in 1..Len(_children_[m.node]) :
                                _children_[m.node][i][1] # last.s)
                       => lookup.found = Raises("KeyError")
                  /\ (last.t = "int" /\ last.n < 0
                        /\ -last.n > Len(_parents_[m.node]))
                       => lookup.found = Raises("IndexError")
                  /\ (last.t = "int" /\ last.n >= 0)
                       => lookup.found = Raises("ValueError")
                  /\ last.t = "other" => lookup.found = Raises("TypeError"))
    /\ [][lookup' # lookup
            => (_children_' = _children_ /\ _parents_' = _parents_)]_vars

\* C8 witness: root['a', -2] raised IndexError: 'a' has one ancestor only.
C8_Witness ==
    /\ lookup.node = 1
    /\ LookedUp(<<StrToken("a"), IntToken(-2)>>)
    /\ lookup.found = Raises("IndexError")

\* C9: path resolution is a left-to-right fold: the empty path gives the
\* command itself, a single token is looked up as the one-element path, and
\* n[t1, ..., tk] is n[t1][t2, ..., tk] (failing as n[t1] fails); in
\* particular branch[-1, s] is the child s of the parent of branch.
C9_LeftToRight ==
    lookup.what = "getitem" =>
        LET n == lookup.node
            toks == lookup.key.toks
            first == GetItem(n, [seq |-> FALSE, toks |-> <<toks[1]>>])
        IN  /\ toks = <<>> => lookup.found = Returns(n)
            /\ ~lookup.key.seq
                => lookup.found = GetItem(n, [seq |-> TRUE, toks |-> toks])
            /\ toks # <<>> =>
                lookup.found =
                    IF first.exc # "None" THEN first
                    ELSE GetItem(first.node, [seq |-> TRUE, toks |-> Tail(toks)])
            /\ \A s \in Names :
                (toks = <<IntToken(-1), StrToken(s)>> /\ Chain(n) # <<>>
                    /\ DictGet(_children_[Chain(n)[1]], s) # 0)
                    => lookup.found = Returns(DictGet(_children_[Chain(n)[1]], s))

\* C9 witness: a[-1, 'b'] gave the sibling b of a.
C9_Witness ==
    /\ LookedUp(<<IntToken(-1), StrToken("b")>>)
    /\ lookup.key.seq
    /\ defs[lookup.node].name = "a"
    /\ lookup.found.exc = "None"
    /\ defs[lookup.found.node].name = "b"
    /\ defs[lookup.found.node].parent = defs[lookup.node].parent

\* C10: a command's args, and the first context item of its delegate, is
\* the shared namespace object exactly when the command is the one the
\* command line selected; for every other command it is that command's
\* delegate view: an object that is not the shared namespace, is no other
\* command's view, and is the same object on every access.
C10_ArgsIdentity ==
    /\ [](access.what # "none" =>
            /\ access.obj = SharedNamespace <=> access.node = _command_
            /\ access.node # _command_ =>
                /\ access.obj = cache[access.node]
                /\ \A m \in 1..built :
                    m # access.node => cache[m] # access.obj)
    /\ [][\A n \in 1..built : seen[n] # 0 => seen'[n] = seen[n]]_vars

\* C10 witness: delegate on a sibling of the selected command gave the view
\* made at its first access, after another command's view had been made.
C10_Witness ==
    /\ access.what = "delegate"
    /\ access.node # _command_
    /\ defs[access.node].parent # 0
    /\ defs[access.node].parent = defs[_command_].parent
    /\ access.obj = 2
    /\ heap = 3

\* C11: the delegate view of a command holds every key of the shared
\* namespace with the shared value (the _parser_ entry apart, which is the
\* command's own parser), and each key the command's parser declares that
\* the shared namespace lacks, with the command's default; no key the shared
\* namespace holds takes the command's default.
C11_DelegateView ==
    \A n \in 1..Len(cache) :
        cache[n] # 0 =>
            LET shared == ns[SharedNamespace]
                view == ns[cache[n]]
            IN  /\ DOMAIN view = DOMAIN shared \cup schema[n]
                /\ \A k \in DOMAIN shared \ {"_parser_"} : view[k] = shared[k]
                /\ \A k \in schema[n] \ DOMAIN shared : view[k] = OptionDefault(n)
                /\ view["_parser_"] = ParserValue(n)

\* A view was computed for a command that declares a key the shared
\* namespace lacks and a key it holds with another value than the command's
\* default.
C11_Witness ==
    \E n \in 1..Len(cache) :
        /\ cache[n] # 0
        /\ \E k \in schema[n] : k \notin DOMAIN ns[SharedNamespace]
        /\ \E k \in schema[n] :
            /\ k \in DOMAIN ns[SharedNamespace]
            /\ ns[SharedNamespace][k] # OptionDefault(n)

\* C12: once the command line is parsed, reading a command's args and
\* delegating to a command leave the shared namespace as it was: the same
\* keys with the same values; a key only commands off the command line
\* declare is not in it.
C12_SharedUnchanged ==
    [][_command_ # 0 =>
        /\ ns'[SharedNamespace] = ns[SharedNamespace]
        /\ \A n \in 1..built :
            \A k \in schema[n] \ UNION {schema[c] : c \in Parsers(_command_)} :
                k \notin DOMAIN ns'[SharedNamespace]]_vars

\* A delegation computed the view of a command that declares a key the
\* shared namespace lacks.
C12_Witness ==
    /\ access.what = "delegate"
    /\ cache[access.node] = access.obj
    /\ access.obj # SharedNamespace
    /\ \E k \in schema[access.node] :
        /\ k \in DOMAIN ns[access.obj]
        /\ k \notin DOMAIN ns[SharedNamespace]

\* C13: Deploy's routine delegates to Build's and produces Build's steps,
\* then its own. Every step Build's routine holds is run before any of
\* Deploy's is, each step once and in the order produced; and every key the
\* parse of the command line left in the shared namespace is in the view
\* Build's routine is given, with the same value.
C13_BuildThenDeploy ==
    /\ \A k \in 1..Len(owners) :
        owners[k] = IF k <= routine.i THEN "build" ELSE "deploy"
    /\ routine.j > 0 => routine.i = Len(routine.build)
    /\ lastRun.step # 0 =>
        /\ runs = lastRun.step
        /\ owners[lastRun.step] = "deploy" =>
            \A k \in 1..Len(routine.build) : k < lastRun.step /\ owners[k] = "build"
    /\ (routine.phase \in {"build", "returned"} \/ routine.i > 0) =>
        /\ access.what = "delegate"
        /\ access.node = Build
        /\ access.obj # SharedNamespace
        /\ \A k \in DOMAIN ns[SharedNamespace] \ {"_parser_"} :
            /\ k \in DOMAIN ns[access.obj]
            /\ ns[access.obj][k] = ns[SharedNamespace][k]

\* Deploy was invoked with an option given on the command line; Build's
\* steps and then Deploy's were run, and the routine returned.
C13_Witness ==
    /\ pc = "done"
    /\ _command_ = Deploy
    /\ routine.i = MaxOwnSteps
    /\ routine.j = MaxOwnSteps
    /\ runs = routine.i + routine.j
    /\ \E k \in schema[Deploy] :
        /\ ns[SharedNamespace][k] = GivenValue
        /\ ns[access.obj][k] = GivenValue

\* C14: each step's descriptor is printed once, before the step is run or
\* skipped, exactly when show_commands is True, or is None while the run is
\* dry; it is not printed when show_commands is False, dry run or not; and
\* nothing else prints a descriptor.
C14_ShownOnce ==
    [][/\ (pc = "show" /\ pc' # "show") =>
            /\ pc' = "exec"
            /\ produced' = produced
            /\ runs' = runs
            /\ shown' = shown +
                    (IF \/ show_commands = "True"
                        \/ (show_commands = "None" /\ ~execute_commands)
                     THEN 1 ELSE 0)
            /\ show_commands = "False" => shown' = shown
            /\ shown' # shown => shownStep' = produced
       /\ (pc # "show" \/ pc' = "show") => shown' = shown /\ shownStep' = shownStep
       /\ runs' # runs => pc = "exec"
       /\ (pc' = "exec" /\ pc # "exec") => pc = "show"]_vars

\* A dry run with show_commands False: the step in hand was not printed,
\* though an earlier step was.
C14_Witness ==
    /\ pc = "exec"
    /\ show_commands = "False"
    /\ ~execute_commands
    /\ shown > 0
    /\ shownStep # produced

\* C15 as stated: a step with no paired modifier is run under FG.
C15_AsStated ==
    (produced > 0 /\ lastRun.step = produced /\ step = "None") => lastRun.method = "FG"

\* C15: a step paired with FG is run with FG; a step with no paired
\* modifier is never run with FG but with TEE when args.foreground is true
\* at that moment and with the plain run when it is false; and when the
\* step before it, paired with FG, was run and returned, a resumable routine
\* has been sent (None, None, None) for it before this step is run.
C15_DefaultStrategy ==
    [][runs' # runs =>
        /\ lastRun'.step = produced
        /\ step = "FG" => lastRun'.method = "FG"
        /\ step = "None" =>
            /\ lastRun'.method # "FG"
            /\ lastRun'.method = IF foreground THEN "TEE" ELSE "run"
        /\ (/\ send
            /\ lastRun.method = "FG"
            /\ lastRun.step = produced - 1
            /\ outcome = Outcome("ok", None, produced - 1)) =>
                received = <<"send", empty_result>>]_vars

\* A resumable routine's step paired with FG was run and returned, the
\* routine was sent (None, None, None) and yielded a bare step after it
\* cleared args.foreground; that step is about to be run.
C15_Witness ==
    /\ pc = "exec"
    /\ send
    /\ execute_commands
    /\ ~foreground
    /\ produced = 2
    /\ step = "None"
    /\ lastRun.method = "FG"
    /\ lastRun.step = 1
    /\ outcome = Outcome("ok", None, 1)
    /\ received = <<"send", empty_result>>

\* C16: a bare step that was run and returned was run with TEE when
\* args.foreground is true and with the plain run when it is false, and
\* either way what it returned, and so the result, is the triple (code,
\* stdout, stderr) of that step.
C16_DefaultRun ==
    (/\ pc = "fetch"
     /\ produced > 0
     /\ step = "None"
     /\ outcome.kind = "ok"
     /\ outcome.step = produced) =>
        /\ lastRun.step = produced
        /\ lastRun.method = IF foreground THEN "TEE" ELSE "run"
        /\ outcome.value \in {Triple(produced, code) : code \in ExitCodes}
        /\ result = outcome.value

\* A bare step was run with TEE and returned the triple with exit code 1,
\* after an earlier bare step was run.
C16_Witness ==
    /\ pc = "fetch"
    /\ produced = 2
    /\ step = "None"
    /\ foreground
    /\ lastRun = [step |-> 2, method |-> "TEE", kwargs |-> run_kwargs,
                  options |-> Options(run_kwargs)]
    /\ outcome = Outcome("ok", Triple(2, 1), 2)
    /\ result = Triple(2, 1)

\* C17 as stated: after a step paired with FG was run and returned, the
\* result to feed back is (code, None, None), code being the exit code.
C17_AsStated ==
    (/\ pc = "fetch"
     /\ send
     /\ step = "FG"
     /\ outcome.kind = "ok"
     /\ outcome.step = produced) =>
        result \in {<<ToString(code), "None", "None">> : code \in ExitCodes}

\* C17: FG returns None, so after a step paired with FG was run and
\* returned, the routine is resumed by send with (None, None, None): the
\* exit code is not fed back.
C17_ForegroundFeedsEmpty ==
    [][(/\ Resumed
        /\ send
        /\ step = "FG"
        /\ outcome.kind = "ok"
        /\ outcome.step = produced) =>
            /\ lastRun.method = "FG"
            /\ outcome.value = None
            /\ received' = <<"send", empty_result>>]_vars

\* The routine yielded a step paired with FG, which was run; resumed with
\* (None, None, None), it returned.
C17_Witness ==
    /\ pc = "done"
    /\ send
    /\ step = "FG"
    /\ lastRun.method = "FG"
    /\ lastRun.step = produced
    /\ outcome = Outcome("ok", None, produced)
    /\ received = <<"send", empty_result>>

\* C18: a step paired with BG is started and not waited for: when its run
\* returns, the process is among those running and the result is the Future
\* of that step, which is what a resumable routine is then sent; no step of
\* Local.__call__ waits for a process to exit.
C18_Background ==
    [][/\ (runs' # runs /\ step = "BG" /\ outcome'.kind = "ok") =>
            /\ lastRun'.method = "BG"
            /\ produced \in running'
            /\ result' = Future(produced)
            /\ pc' = "fetch"
       /\ (/\ Resumed
           /\ send
           /\ step = "BG"
           /\ outcome.kind = "ok"
           /\ outcome.step = produced) =>
                received' = <<"send", Future(produced)>>
       /\ pc' # pc => running \subseteq running']_vars

\* The routine was sent the Future of a step paired with BG, a later step
\* was run, and the routine returned while the first process still runs.
C18_Witness ==
    /\ pc = "done"
    /\ send
    /\ 1 \in running
    /\ lastRun.step = 2
    /\ lastRun.method # "BG"
    /\ received[1] = "send"

\* C19: every run of a step, whatever its method (FG, BG, TEE, SHH or the
\* default TEE/run), is given exactly the retcode and timeout attributes that
\* are declared on the routine: a declared value replaces the default, any
\* other attribute is not passed, and with neither declared the step runs
\* with retcode 0 and no timeout.
C19_RunOptions ==
    runs > 0 =>
        /\ lastRun.method \in {"FG", "BG", "TEE", "SHH", "run"}
        /\ lastRun.kwargs = attributes \cap {"retcode", "timeout"}
        /\ \A key \in {"retcode", "timeout"} :
              lastRun.options[key] = IF key \in attributes THEN "prepare"
                                     ELSE IF key = "retcode" THEN "0" ELSE "None"

C19_Witness ==
    /\ lastRun.step = 2
    /\ lastRun.method = "BG"
    /\ attributes = {"retcode", "help"}
    /\ lastRun.options = [retcode |-> "prepare", timeout |-> "None"]
    /\ pc = "fetch"

\* C20 as stated: an Exception out of the invoked command with the traceback
\* flag not set ends in the short message and exit code 1; with the flag set,
\* or with no namespace, it propagates and nothing is printed.
C20_AsStated ==
    (pc = "raised" /\ finish # "no" /\ IsException(propagated)) =>
        /\ (args = "Namespace" /\ traceback # "True"
              /\ propagated \notin {EnvironmentError, ParserError}) =>
              (finish = "exit 1" /\ printed = ShortMessage(propagated))
        /\ (args = "None" \/ traceback = "True") =>
              (finish = "raise" /\ printed = None)

\* C20: an Exception that reaches main with a namespace whose traceback value
\* is False ends in one short message "[Class] text" and exit code 1; with
\* traceback True, with a namespace that has no traceback attribute, or with
\* no namespace yet, main re-raises it and prints nothing.
C20_MainHandler ==
    (pc = "raised" /\ finish # "no" /\ IsException(propagated)) =>
        /\ (args = "Namespace" /\ traceback = "False") =>
              (finish = "exit 1" /\ printed = ShortMessage(propagated))
        /\ (args = "None" \/ traceback \in {"True", "absent"}) =>
              (finish = "raise" /\ printed = None)

C20_Witness ==
    /\ finish = "exit 1"
    /\ args = "Namespace"
    /\ traceback = "False"
    /\ propagated = ProcessExecutionError(2)
    /\ printed = <<"[ProcessExecutionError]", "2">>

\* C21: once the tree is built, every command's _args_ is the one shared
\* namespace object, and no step that follows (a lookup, an iteration,
\* reading args, a delegation, the parse, the call of the selected command)
\* changes any command's _children_, _parents_ or _args_.
C21_TreeFixed ==
    [][/\ Built' => \A n \in 1..built' : _args_'[n] = SharedNamespace
       /\ Built => /\ _children_' = _children_
                   /\ _parents_' = _parents_
                   /\ _args_' = _args_
                   /\ built' = built]_vars

\* C21 witness: on a tree of two commands the child was selected and called,
\* the root gave its delegate view, and the root was iterated over.
C21_Witness ==
    /\ Built
    /\ built = 2
    /\ _command_ = 2
    /\ pc = "done"
    /\ seen[1] = 2
    /\ lookup.what = "iter"
    /\ lookup.node = 1
    /\ lookup.found = Yields(<<2>>)
    /\ _args_ = <<SharedNamespace, SharedNamespace>>

\* C22 as stated: the second of two nested classes of one parent that derive
\* the same name is never constructed, and no command is replaced in its
\* parent's _children_: the build has failed before.
C22_AsStated ==
    /\ \A j \in 1..built : \A i \in 1..(j - 1) :
          ~(defs[i].parent = defs[j].parent /\ defs[i].name = defs[j].name)
    /\ ~Replaced

\* C22, what the code does: _build_interface_ makes no check of its own. As
\* long as the build has not failed, each parent's _children_ has one entry
\* for each name its constructed children derive, and it is the last of them;
\* the build fails only where argparse refuses the name, before the class
\* that repeats it is constructed, and then no command has been replaced.
C22_LastWins ==
    /\ \A p \in 1..built :
          LET kids(nm) == {i \in 1..built : defs[i].parent = p /\ defs[i].name = nm}
          IN  /\ \A nm \in Names :
                    DictGet(_children_[p], nm) =
                        IF kids(nm) = {} THEN 0
                        ELSE CHOOSE i \in kids(nm) : \A k \in kids(nm) : k <= i
              /\ Len(_children_[p]) = Cardinality({nm \in Names : kids(nm) # {}})
    /\ failed # None =>
          /\ failed = ArgumentError
          /\ built < Len(defs)
          /\ Conflicts(defs[built + 1].parent, defs[built + 1].name)
          /\ ~Replaced

\* C22 witness: the root nests two classes named a and then one named b; the
\* build completed, and the root's children are the second a and b.
C22_Witness ==
    /\ Built
    /\ failed = None
    /\ built = 4
    /\ \A i \in 2..4 : defs[i].parent = 1
    /\ defs[2].name = "a" /\ defs[3].name = "a" /\ defs[4].name = "b"
    /\ _children_[1] = <<(<<"a", 3>>), (<<"b", 4>>)>>

\* The commands among the first k whose class has the parent n, in the order
\* of their definitions.
RECURSIVE ChildrenUpTo(_, _)
ChildrenUpTo(n, k) ==
    IF k = 0 THEN <<>>
    ELSE ChildrenUpTo(n, k - 1) \o (IF defs[k].parent = n THEN <<k>> ELSE <<>>)

C24_AsStated ==
    (constructing # NotConstructing /\ lookup.what \in {"getitem", "iter", "args"}) =>
        lookup.found = Raises("RuntimeError")

\* C24: in a command's __init__, whether or not Command.__init__ has run, a
\* lookup whose path starts with a name or a negative integer, an iteration,
\* the root and the args each raise RuntimeError; a lookup with the empty
\* path returns the command itself, one whose path starts with an integer
\* that is not negative raises ValueError, and one whose path starts with
\* anything else raises TypeError.
C24_UnderConstruction ==
    (constructing # NotConstructing /\ lookup # NoLookup) =>
        /\ lookup.node = constructing.node
        /\ lookup.node = built + 1
        /\ IF lookup.what # "getitem" THEN lookup.found = Raises("RuntimeError")
           ELSE IF lookup.key.toks = <<>> THEN lookup.found = Returns(lookup.node)
           ELSE LET head == lookup.key.toks[1]
                IN  lookup.found = Raises(
                        IF head.t = "str" \/ (head.t = "int" /\ head.n < 0)
                        THEN "RuntimeError"
                        ELSE IF head.t = "int" THEN "ValueError" ELSE "TypeError")

\* C24 witness: the __init__ of the third command, which never ran
\* Command.__init__, looked up self['a'] and got RuntimeError.
C24_Witness ==
    /\ constructing = [node |-> 3, base |-> FALSE]
    /\ built = 2
    /\ lookup.what = "getitem"
    /\ lookup.key = [seq |-> FALSE, toks |-> <<StrToken("a")>>]
    /\ lookup.found = Raises("RuntimeError")

\* C25: what a Local's routine returned decides the steps the loop takes.
\* None: no step is taken, shown or run.  A bare process descriptor, or a
\* tuple or list of two elements whose first is a modifier instance: exactly
\* one step, the descriptor with that modifier (none for the bare one), and
\* the loop ends after it.  A sequence of two elements whose first is no
\* modifier instance: two steps, the first element and then the second, each
\* with its own modifier.
C25_ReturnValue ==
    LET items == commands.items
        pair == commands.kind = "tuple" /\ Len(items) = 2
        one == \/ commands.kind = "BaseCommand"
               \/ pair /\ items[1].t = "ExecutionModifier"
        two == pair /\ items[1].t # "ExecutionModifier"
    IN  /\ commands.kind = "None" =>
            /\ pc = "done"
            /\ produced = 0 /\ shown = 0 /\ runs = 0
        /\ one =>
            /\ produced <= 1
            /\ runs <= 1
            /\ pc = "done" => produced = 1
            /\ produced = 1 =>
                step = (IF commands.kind = "BaseCommand" THEN "None" ELSE items[1].m)
        /\ two =>
            /\ produced <= 2
            /\ runs <= produced
            /\ pc = "done" => produced = 2
            /\ produced >= 1 => step = items[produced].m
            /\ runs >= 1 => lastRun.method = Method(items[lastRun.step].m, foreground)

\* C25 witness: the routine returned the list of a bare descriptor and a
\* descriptor paired with BG; both were run, the second by BG, and the loop
\* ended.
C25_Witness ==
    /\ commands = [kind |-> "tuple", items |-> <<Element("None"), Element("BG")>>]
    /\ pc = "done"
    /\ produced = 2
    /\ runs = 2
    /\ lastRun.step = 2
    /\ lastRun.method = "BG"

\* C26: a step that a generator yields when a failure was thrown into it is
\* treated as any step is: it is printed under the same condition, and then
\* run by the method of its modifier, or skipped in a dry run.  The failure
\* of a step of a generator never leaves Local.__call__ from the run of
\* that step: it leaves when the generator, resumed, lets it out, and by
\* then every step the generator yielded after it, the last one included,
\* was run or, in a dry run, skipped.
C26_CleanupStep ==
    [][/\ (send /\ received[1] = "throw" /\ pc = "show" /\ pc' # pc) =>
            /\ pc' = "exec"
            /\ shown' = shown +
                    (IF \/ show_commands = "True"
                        \/ (show_commands = "None" /\ ~execute_commands)
                     THEN 1 ELSE 0)
       /\ (send /\ received[1] = "throw" /\ pc = "exec" /\ pc' # pc) =>
            IF execute_commands
            THEN /\ runs' = runs + 1
                 /\ lastRun'.step = produced
                 /\ lastRun'.method =
                        (IF step # "None" THEN step
                         ELSE IF foreground THEN "TEE" ELSE "run")
                 /\ outcome'.step = produced
            ELSE /\ runs' = runs
                 /\ outcome' = Outcome("dry", None, produced)
                 /\ pc' = "fetch"
       /\ \A k \in 1..MaxSteps :
            (send /\ propagated # propagated' /\ propagated' = ProcessExecutionError(k)) =>
                /\ pc = "fetch"
                /\ k <= produced
                /\ outcome.step = produced
                /\ outcome.kind \in {"ok", "dry", "fail"}
                /\ outcome.kind # "dry" => lastRun.step = produced]_vars

\* C26 witness: the first step of a generator failed and the failure was
\* thrown into it; it yielded a second step, which was printed and run and
\* returned; sent that result, the generator let the first failure out.
C26_Witness ==
    /\ pc = "raised"
    /\ send
    /\ propagated = ProcessExecutionError(1)
    /\ produced = 2
    /\ shownStep = 2
    /\ lastRun.step = 2
    /\ outcome.kind = "ok"
    /\ outcome.step = 2
    /\ received[1] = "send"

\* C27: when every step that is run finishes and the routine yields
\* finitely many steps, Local.__call__ ends: it returns, its steps
\* exhausted, or an exception leaves it, never both; and once it has ended
\* no step is fetched, printed or run.
C27_Terminates ==
    /\ <>(pc \in {"done", "raised"})
    /\ [](pc = "done" => propagated = None)
    /\ [](pc = "raised" => propagated # None)
    /\ [][(pc = "done" \/ pc = "raised") =>
            (/\ pc' = pc
             /\ propagated' = propagated
             /\ produced' = produced
             /\ shown' = shown
             /\ runs' = runs)]_vars

\* C27 witness: a generator yielded as many steps as it may, the last was
\* run and failed, and the generator, resumed by throw, returned.
C27_Witness ==
    /\ pc = "done"
    /\ send
    /\ produced = MaxSteps
    /\ runs = MaxSteps
    /\ outcome.kind = "fail"
    /\ received[1] = "throw"

\* C28: a generator is first resumed by next. At each later resumption it
\* is handed one thing, which comes of the step it yielded last: sent what
\* the run of that step returned ((None, None, None) where that was None),
\* sent (None, None, None) if the step was skipped in a dry run, or thrown
\* the failure of that step.  What an earlier step left in result or thrown
\* is not handed to it.
C28_OneOutcome ==
    [][(Resumed /\ send) =>
        IF produced = 0
        THEN received' = <<"next", None>>
        ELSE /\ outcome.step = produced
             /\ outcome.kind \in {"ok", "dry", "fail"}
             /\ outcome.kind = "ok" =>
                    received' = <<"send", IF outcome.value = None
                                         THEN empty_result
                                         ELSE outcome.value>>
             /\ outcome.kind = "dry" => received' = <<"send", empty_result>>
             /\ outcome.kind = "fail" => received' = <<"throw", outcome.value>>]_vars

\* C28 witness: the first step failed, the generator was thrown the failure
\* and yielded a second step, skipped in a dry run; resumed by send with
\* (None, None, None) while thrown still holds the first failure, it yielded
\* a third step.
C28_Witness ==
    /\ pc = "show"
    /\ send
    /\ produced = 3
    /\ thrown = ProcessExecutionError(1)
    /\ outcome = Outcome("dry", None, 2)
    /\ received = <<"send", empty_result>>

\* C29: a KeyboardInterrupt raised while a step is run leaves
\* Local.__call__ at once, whether or not the routine is a generator: it is
\* not kept in thrown and nothing is handed to the generator after it, and
\* no step is fetched, printed or run after it.  main then prints the one
\* word "stopped" and returns: it neither re-raises nor exits with code 1,
\* whatever args.traceback is.
C29_Interrupt ==
    [][/\ (outcome' # outcome /\ outcome'.kind = "interrupt") =>
            /\ pc = "exec"
            /\ pc' = "raised"
            /\ propagated' = outcome'.value
            /\ propagated'[1] = "KeyboardInterrupt"
            /\ thrown' = thrown
            /\ result' = result
            /\ received' = received
       /\ (pc = "raised" /\ propagated[1] = "KeyboardInterrupt") =>
            /\ pc' = pc
            /\ received' = received
            /\ produced' = produced
            /\ shown' = shown
            /\ runs' = runs
            /\ finish' # finish =>
                /\ finish' = "return"
                /\ printed' = <<"stopped">>
                /\ traceback' = traceback]_vars

\* C29 witness: the second step of a generator was interrupted while it
\* ran; the generator was last resumed by send, before it yielded that
\* step; main printed "stopped" and returned.
C29_Witness ==
    /\ finish = "return"
    /\ send
    /\ propagated = KeyboardInterrupt(2)
    /\ outcome.kind = "interrupt"
    /\ lastRun.step = 2
    /\ produced = 2
    /\ received[1] = "send"
    /\ printed = <<"stopped">>

\* C30 as stated: a step whose modifier instance was made with an option
\* of its own, run for a routine that declares another recognized option,
\* is run with both; with nothing declared it is run with its own.
C30_AsStated ==
    (/\ runs > 0
     /\ lastRun.step = produced
     /\ step # "None"
     /\ own \cap run_kwargs = {}) =>
        \A key \in _run_kws_ :
            lastRun.options[key] =
                (IF key \in run_kwargs THEN "prepare"
                 ELSE IF key \in own THEN "step"
                 ELSE DefaultOptions[key])

\* C30: what the routine declares is not merged into the options of a
\* step's modifier but takes their place.  When the routine declares any
\* recognized option, a step with a modifier is run with what the routine
\* declares and with the default (retcode 0, no timeout) for each option it
\* does not declare: the options the step's modifier was made with are
\* dropped.  When the routine declares none, the step is run with the
\* options its modifier was made with.
C30_OverridesReplace ==
    (/\ runs > 0
     /\ lastRun.step = produced
     /\ step # "None") =>
        \A key \in _run_kws_ :
            lastRun.options[key] =
                (IF run_kwargs = {}
                 THEN (IF key \in own THEN "step" ELSE DefaultOptions[key])
                 ELSE (IF key \in run_kwargs THEN "prepare" ELSE DefaultOptions[key]))

\* C30 witness: the routine declares retcode and returned a step paired
\* with FG made with a timeout; the step was run with the routine's retcode
\* and no timeout.
C30_Witness ==
    /\ run_kwargs = {"retcode"}
    /\ own = {"timeout"}
    /\ commands.kind = "tuple"
    /\ step = "FG"
    /\ runs = 1
    /\ lastRun.step = produced
    /\ lastRun.method = "FG"
    /\ lastRun.options = [retcode |-> "prepare", timeout |-> "None"]

====
